---- MODULE Spec2Model ----
(***************************************************************************)
(* A model of the yascad language back end: the geometry table, the        *)
(* built-in operator catalogue and the tree-walking interpreter.           *)
(*                                                                         *)
(* The geometry kernel is an opaque collaborator.  A geometry is modelled  *)
(* as the set of unit cells it covers, so that union and difference are    *)
(* the set operations and a transform is a map on cells.                   *)
(***************************************************************************)
EXTENDS Integers, Sequences, FiniteSets, TLC

VARIABLES
    table,        \* GeometryTable.table: handle -> [entry, disposition]
    next_index,   \* GeometryTable.next_index
    scope,        \* the root LexicalScope frame: [bindings, operators]
    phase,        \* "running", "error", "panic", "assembled"
    fail,         \* the RuntimeErrorKind / panic that ended the run, or "none"
    final,        \* the cells of the manifold build_top_level_manifold returned
    steps,        \* number of operations / top-level statements performed
    issued,       \* history: every handle returned so far by add
    obs           \* history: what the last operation was given and returned

vars == <<table, next_index, scope, phase, fail, final, steps, issued, obs>>

(***************************************************************************)
(* Bounds of the model.                                                    *)
(***************************************************************************)
NumCells == 2      \* the kernel's universe of cells is 1..NumCells
MaxOps == 4        \* operations performed on a bare geometry table
MaxStmts == 2      \* top-level statements of a program
MaxPositional == 3 \* positional arguments of a call (argument binding)
MaxNamed == 2      \* named arguments of a call (argument binding)
MaxUnion == 3      \* handles given to one union / one catalogue operator

Cells == 1..NumCells

(***************************************************************************)
(* The geometry kernel (manifold-rs), abstracted to cell sets.             *)
(***************************************************************************)
Manifold(cells) == [dim |-> 3, cells |-> cells]
CrossSection(cells) == [dim |-> 2, cells |-> cells]

kernel_union(a, b) == a \cup b
kernel_difference(a, b) == a \ b
kernel_translate(a, x) == { ((c + x - 1) % NumCells) + 1 : c \in a }
kernel_extrude(a) == a
\* Manifold::cube(x, ..) / CrossSection::square(x, ..): the cells up to x
kernel_box(x) == { c \in Cells : c <= x }

(***************************************************************************)
(* Failure kinds.  A RuntimeErrorKind is named as in error.rs; a Rust      *)
(* panic is named "panic: <message>".                                      *)
(***************************************************************************)
NoFail == "none"
PanicNotInTable == "panic: geometry not in table"
PanicUnwrapNone == "panic: called Option::unwrap() on a None value"
PanicTodo == "panic: not yet implemented"
PanicExpectedManifold == "panic: expected manifold"
PanicMapNonManifold == "panic: map_manifold called on non-manifold geometry"
PanicTopLevel2D == "panic: top-level 2D geometry is not yet supported"
PanicUnwrapCrossSection == "panic: expected cross-section"

IsPanic(f) == f \in {PanicNotInTable, PanicUnwrapNone, PanicTodo, PanicExpectedManifold,
                     PanicMapNonManifold, PanicTopLevel2D, PanicUnwrapCrossSection}

Physical == "Physical"
Virtual == "Virtual"

NoEntry == [dim |-> 0, cells |-> {}]

(***************************************************************************)
(* GeometryTable.  An operation takes and returns the interpreter state    *)
(* st = [table, next_index, fail, ...]; once st.fail is set the run is     *)
(* over and later operations leave st alone.                               *)
(***************************************************************************)
Failed(st) == st.fail # NoFail

\* `let value = ...;` followed by the rest of the function
With(value, then(_)) == then(value)

\* what an operation hands back when it has failed
NoGeometry(st) == [st |-> st, entry |-> NoEntry, disposition |-> Physical]

Raise(st, kind) == IF Failed(st) THEN st ELSE [st EXCEPT !.fail = kind]

\* a flatten that takes the disposition of the first geometry for all of them
flatten_first(dispositions) ==
    IF dispositions = <<>> THEN Physical ELSE dispositions[1]

\* GeometryDisposition::flatten: "mixed" stands for Err(MixedGeometryDisposition)
flatten(dispositions) ==
    IF \A i \in DOMAIN dispositions : dispositions[i] = Physical THEN Physical
    ELSE IF \A i \in DOMAIN dispositions : dispositions[i] = Virtual THEN Virtual
    ELSE "mixed"

\* a table that hands out the lowest index above the number of live entries
take_next_index_by_len(st) ==
    [st |-> [st EXCEPT !.next_index = st.next_index + 1],
     idx |-> Cardinality(DOMAIN st.table) + 1]

\* GeometryTable::take_next_index
take_next_index(st) ==
    [st |-> [st EXCEPT !.next_index = st.next_index + 1], idx |-> st.next_index]

\* GeometryTable::add (HashMap::insert overwrites an existing key)
add(st, geometry, disposition) ==
    IF Failed(st) THEN [st |-> st, idx |-> 0]
    ELSE LET t == take_next_index(st)
             row == [entry |-> geometry, disposition |-> disposition]
         IN [st |-> [t.st EXCEPT
                       !.table = [h \in (DOMAIN t.st.table) \cup {t.idx} |->
                                     IF h = t.idx THEN row ELSE t.st.table[h]],
                       !.added = Append(t.st.added, t.idx)],
             idx |-> t.idx]

\* GeometryTable::remove
remove(st, index) ==
    IF Failed(st) THEN [st |-> st, entry |-> NoEntry, disposition |-> Physical]
    ELSE IF index \notin DOMAIN st.table
    THEN [st |-> Raise(st, PanicNotInTable), entry |-> NoEntry, disposition |-> Physical]
    ELSE [st |-> [st EXCEPT !.table = [h \in (DOMAIN st.table) \ {index} |-> st.table[h]]],
          entry |-> st.table[index].entry,
          disposition |-> st.table[index].disposition]

\* GeometryTable::get
get(st, index) ==
    IF Failed(st) THEN [st |-> st, entry |-> NoEntry]
    ELSE IF index \notin DOMAIN st.table
    THEN [st |-> Raise(st, PanicNotInTable), entry |-> NoEntry]
    ELSE [st |-> st, entry |-> st.table[index].entry]

\* GeometryTable::get_disposition
get_disposition(st, index) ==
    IF Failed(st) THEN [st |-> st, disposition |-> Physical]
    ELSE IF index \notin DOMAIN st.table
    THEN [st |-> Raise(st, PanicNotInTable), disposition |-> Physical]
    ELSE [st |-> st, disposition |-> st.table[index].disposition]

\* GeometryTable::map with func = a kernel transform given as the new cells
map(st, index, func(_)) ==
    LET r == remove(st, index)
    IN add(r.st, func(r.entry), r.disposition)

\* the eager `indices.into_iter().map(|child| self.remove(child)).unzip()`
RECURSIVE remove_each(_, _)
remove_each(st, indices) ==
    IF indices = <<>> THEN [st |-> st, entries |-> <<>>, dispositions |-> <<>>]
    ELSE LET r == remove(st, Head(indices))
             rest == remove_each(r.st, Tail(indices))
         IN [st |-> rest.st,
             entries |-> <<r.entry>> \o rest.entries,
             dispositions |-> <<r.disposition>> \o rest.dispositions]

\* the fold over `rest` in remove_many_into_union: the union of the entries,
\* or dim 0 when an entry's dimension differs from the first entry's
RECURSIVE union_entries(_, _)
union_entries(first, rest) ==
    IF rest = <<>> THEN first
    ELSE IF Head(rest).dim # first.dim THEN NoEntry
    ELSE union_entries([first EXCEPT !.cells = kernel_union(first.cells, Head(rest).cells)],
                       Tail(rest))

\* GeometryTable::remove_many_into_union
remove_many_into_union(st, indices) ==
    IF Failed(st) THEN NoGeometry(st)
    ELSE IF Len(indices) = 1 THEN remove(st, indices[1])
    ELSE With(remove_each(st, indices), LAMBDA r :
           IF Failed(r.st) THEN NoGeometry(r.st)
           ELSE IF flatten(r.dispositions) = "mixed"
           THEN NoGeometry(Raise(r.st, "MixedGeometryDisposition"))
           ELSE IF r.entries = <<>> THEN NoGeometry(Raise(r.st, PanicUnwrapNone))
           ELSE With(union_entries(Head(r.entries), Tail(r.entries)), LAMBDA u :
                  IF u.dim = 0 THEN NoGeometry(Raise(r.st, "MixedGeometryDimensions"))
                  ELSE [st |-> r.st, entry |-> u,
                        disposition |-> flatten(r.dispositions)]))

(***************************************************************************)
(* Runtime objects (object.rs).                                            *)
(***************************************************************************)
Null == [type |-> "Null"]
Number(n) == [type |-> "Number", num |-> n]
Boolean(b) == [type |-> "Boolean", value |-> b]
\* the f64 values that are no number of the model: 0.0 / 0.0 and x / 0.0
NotANumber == [type |-> "Number", num |-> 0, nan |-> TRUE]
Infinity(positive) == [type |-> "Number", num |-> 0, infinite |-> positive]
ManifoldObject(index) == [type |-> "Manifold", idx |-> index]
CrossSectionObject(index) == [type |-> "CrossSection", idx |-> index]
Vector(items) == [type |-> "Vector", items |-> items]

NoVec == [err |-> NoFail, x |-> 0, y |-> 0, z |-> 0]

\* Object::as_number
as_number(o) ==
    IF o.type = "Number" THEN [NoVec EXCEPT !.x = o.num]
    ELSE [NoVec EXCEPT !.err = "IncorrectType"]

\* Object::into_2d_vector
into_2d_vector(o) ==
    IF o.type # "Vector" THEN [NoVec EXCEPT !.err = "IncorrectType"]
    ELSE IF Len(o.items) # 2 THEN [NoVec EXCEPT !.err = "IncorrectVectorLength"]
    ELSE IF as_number(o.items[1]).err # NoFail THEN as_number(o.items[1])
    ELSE IF as_number(o.items[2]).err # NoFail THEN as_number(o.items[2])
    ELSE [NoVec EXCEPT !.x = o.items[1].num, !.y = o.items[2].num]

\* Object::into_3d_vector
into_3d_vector(o) ==
    IF o.type # "Vector" THEN [NoVec EXCEPT !.err = "IncorrectType"]
    ELSE IF Len(o.items) # 2 /\ Len(o.items) # 3
    THEN [NoVec EXCEPT !.err = "IncorrectVectorLength"]
    ELSE IF as_number(o.items[1]).err # NoFail THEN as_number(o.items[1])
    ELSE IF as_number(o.items[2]).err # NoFail THEN as_number(o.items[2])
    ELSE IF Len(o.items) = 3 /\ as_number(o.items[3]).err # NoFail THEN as_number(o.items[3])
    ELSE [NoVec EXCEPT !.x = o.items[1].num, !.y = o.items[2].num,
                       !.z = IF Len(o.items) = 3 THEN o.items[3].num ELSE 0]

(***************************************************************************)
(* The built-in operator catalogue (builtin/operators.rs).  An action      *)
(* takes the interpreter state, the bound argument map and the child       *)
(* handles, and returns the resulting (entry, disposition) without         *)
(* inserting it.                                                           *)
(***************************************************************************)
\* the transforms translate / rotate / scale / mirror share one shape: union
\* the children, read "v" as the dimension asks, transform
transform_action(st, arguments, children, vec3(_), vec2(_), f3(_, _), f2(_, _)) ==
    With(remove_many_into_union(st, children), LAMBDA u :
      IF Failed(u.st) THEN NoGeometry(u.st)
      ELSE With(IF u.entry.dim = 3 THEN vec3(arguments["v"]) ELSE vec2(arguments["v"]),
                LAMBDA v :
             IF v.err # NoFail THEN NoGeometry(Raise(u.st, v.err))
             ELSE [st |-> u.st,
                   entry |-> [u.entry EXCEPT !.cells =
                                 IF u.entry.dim = 3 THEN f3(u.entry.cells, v)
                                 ELSE f2(u.entry.cells, v)],
                   disposition |-> u.disposition]))

kernel_shift(cells, v) == kernel_translate(cells, v.x)
kernel_rotate(cells, v) == kernel_translate(cells, v.x)
kernel_scale(cells, v) == { c \in Cells : \E d \in cells : c <= d * v.x }
kernel_mirror(cells, v) == { NumCells + 1 - c : c \in cells }

\* translate_definition
translate_definition(st, arguments, children) ==
    transform_action(st, arguments, children, into_3d_vector, into_2d_vector,
                     kernel_shift, kernel_shift)

\* rotate_definition (a 2D rotation takes a number)
rotate_definition(st, arguments, children) ==
    transform_action(st, arguments, children, into_3d_vector, as_number,
                     kernel_rotate, kernel_rotate)

\* scale_definition
scale_definition(st, arguments, children) ==
    transform_action(st, arguments, children, into_3d_vector, into_2d_vector,
                     kernel_scale, kernel_scale)

\* mirror_definition
mirror_definition(st, arguments, children) ==
    transform_action(st, arguments, children, into_3d_vector, into_2d_vector,
                     kernel_mirror, kernel_mirror)

\* union_definition
union_definition(st, arguments, children) ==
    remove_many_into_union(st, children)

\* difference_definition
difference_definition(st, arguments, children) ==
    IF children = <<>> THEN NoGeometry(Raise(st, "ChildrenExpected"))
    ELSE With(remove(st, Head(children)), LAMBDA minuend :
           IF Failed(minuend.st) \/ Tail(children) = <<>> THEN minuend
           ELSE With(remove_many_into_union(minuend.st, Tail(children)), LAMBDA subtrahend :
                  IF Failed(subtrahend.st) THEN NoGeometry(subtrahend.st)
                  ELSE IF minuend.entry.dim # subtrahend.entry.dim
                  THEN NoGeometry(Raise(subtrahend.st, "MixedGeometryDimensions"))
                  ELSE [st |-> subtrahend.st,
                        entry |-> [minuend.entry EXCEPT !.cells =
                                      kernel_difference(minuend.entry.cells,
                                                        subtrahend.entry.cells)],
                        disposition |-> minuend.disposition]))

\* linear_extrude_definition
linear_extrude_definition(st, arguments, children) ==
    IF as_number(arguments["h"]).err # NoFail
    THEN NoGeometry(Raise(st, as_number(arguments["h"]).err))
    ELSE With(remove_many_into_union(st, children), LAMBDA u :
           IF Failed(u.st) THEN NoGeometry(u.st)
           ELSE IF u.entry.dim # 2 THEN NoGeometry(Raise(u.st, "Requires2DGeometry"))
           ELSE [st |-> u.st, entry |-> Manifold(kernel_extrude(u.entry.cells)),
                 disposition |-> u.disposition])

\* buffer_definition
buffer_definition(st, arguments, children) ==
    With(remove_many_into_union(st, children), LAMBDA u :
      IF Failed(u.st) THEN NoGeometry(u.st)
      ELSE [st |-> u.st, entry |-> u.entry, disposition |-> Virtual])

BuiltinOperators ==
    {"translate", "union", "difference", "linear_extrude", "rotate", "scale", "mirror", "buffer"}

\* get_builtin_operator(name).action
get_builtin_operator(name, st, arguments, children) ==
    CASE name = "translate" -> translate_definition(st, arguments, children)
      [] name = "union" -> union_definition(st, arguments, children)
      [] name = "difference" -> difference_definition(st, arguments, children)
      [] name = "linear_extrude" -> linear_extrude_definition(st, arguments, children)
      [] name = "rotate" -> rotate_definition(st, arguments, children)
      [] name = "scale" -> scale_definition(st, arguments, children)
      [] name = "mirror" -> mirror_definition(st, arguments, children)
      [] name = "buffer" -> buffer_definition(st, arguments, children)


(***************************************************************************)
(* Lexical scope (lexical_scope.rs).  The frames reachable through the     *)
(* parent pointers of the current frame always form the chain that         *)
(* st.scopes holds, root first: a frame is created for a body, used while  *)
(* the body runs and dropped afterwards.                                   *)
(***************************************************************************)
EmptyMap == [k \in {} |-> Null]
Put(f, k, v) == [x \in (DOMAIN f) \cup {k} |-> IF x = k THEN v ELSE f[x]]

\* LexicalScope::new_root / LexicalScope::new
new_root == [bindings |-> EmptyMap, operators |-> EmptyMap]

\* LexicalScope::get_binding
RECURSIVE get_binding(_, _)
get_binding(scopes, name) ==
    IF scopes = <<>> THEN [found |-> FALSE, object |-> Null]
    ELSE IF name \in DOMAIN scopes[Len(scopes)].bindings
    THEN [found |-> TRUE, object |-> scopes[Len(scopes)].bindings[name]]
    ELSE get_binding(SubSeq(scopes, 1, Len(scopes) - 1), name)

\* LexicalScope::get_operator
RECURSIVE get_operator(_, _)
get_operator(scopes, name) ==
    IF scopes = <<>> THEN [found |-> FALSE, node |-> Null]
    ELSE IF name \in DOMAIN scopes[Len(scopes)].operators
    THEN [found |-> TRUE, node |-> scopes[Len(scopes)].operators[name]]
    ELSE get_operator(SubSeq(scopes, 1, Len(scopes) - 1), name)

\* LexicalScope::add_binding as the interpreter uses it: refused (ok = FALSE)
\* when the name is bound in this frame or an ancestor
add_binding(st, name, value) ==
    IF get_binding(st.scopes, name).found THEN [st |-> st, ok |-> FALSE]
    ELSE [st |-> [st EXCEPT !.scopes[Len(st.scopes)].bindings = Put(@, name, value)],
          ok |-> TRUE]

\* LexicalScope::add_operator as the interpreter uses it
add_operator(st, name, definition) ==
    IF get_operator(st.scopes, name).found THEN [st |-> st, ok |-> FALSE]
    ELSE [st |-> [st EXCEPT !.scopes[Len(st.scopes)].operators = Put(@, name, definition)],
          ok |-> TRUE]

(***************************************************************************)
(* ExecutionContext (interpreter.rs).  The lexical_scope field is the top  *)
(* of st.scopes.  where / in_body / kids are history fields: the syntactic *)
(* position of the node being evaluated, kept apart from it_manifold and   *)
(* operator_children so that what the code does can be compared with it.   *)
(***************************************************************************)
ItNone == [tag |-> "None", idx |-> 0]
ItUnsupportedNotOneChild == [tag |-> "UnsupportedNotOneChild", idx |-> 0]
ItSome(index) == [tag |-> "Some", idx |-> index]

\* ExecutionContext::new
new_context ==
    [it_manifold |-> ItNone,
     operator_children |-> [some |-> FALSE, handles |-> <<>>],
     arguments |-> EmptyMap,
     where |-> "top", in_body |-> FALSE, kids |-> <<>>]

with_it_manifold(ctx, it_manifold) == [ctx EXCEPT !.it_manifold = it_manifold]
with_operator_children(ctx, handles) ==
    [ctx EXCEPT !.operator_children = [some |-> TRUE, handles |-> handles]]
with_arguments(ctx, arguments) == [ctx EXCEPT !.arguments = arguments]
\* a context that goes on in the frame it has
with_deeper_scope_shared(st) == st

\* ExecutionContext::with_deeper_scope: a new frame whose parent is the current one
with_deeper_scope(st) ==
    IF Failed(st) THEN st ELSE [st EXCEPT !.scopes = Append(@, new_root)]
\* the frame is dropped when the context that owns it goes out of scope
drop_scope(st, depth) ==
    IF Failed(st) THEN st ELSE [st EXCEPT !.scopes = SubSeq(@, 1, depth)]

(***************************************************************************)
(* Interpreter helpers (interpreter.rs).                                   *)
(***************************************************************************)
IsManifoldObject(o) == o.type = "Manifold"

\* Interpreter::filter_objects_to_manifolds: only Object::Manifold passes
filter_objects_to_manifolds(objects) ==
    LET kept == SelectSeq(objects, IsManifoldObject)
    IN [i \in 1..Len(kept) |-> kept[i].idx]

RECURSIVE keep_physical(_, _)
keep_physical(st, indices) ==
    IF indices = <<>> \/ Failed(st) THEN [st |-> st, indices |-> <<>>]
    ELSE With(get_disposition(st, Head(indices)), LAMBDA d :
           With(keep_physical(d.st, Tail(indices)), LAMBDA rest :
             [st |-> rest.st,
              indices |-> IF d.disposition = Physical
                          THEN <<Head(indices)>> \o rest.indices ELSE rest.indices]))

\* Interpreter::filter_objects_to_physical_geometries
filter_objects_to_physical_geometries(st, objects) ==
    keep_physical(st, filter_objects_to_manifolds(objects))

\* Interpreter::union_child_geometry: the same text as
\* GeometryTable::remove_many_into_union
union_child_geometry(st, children) == remove_many_into_union(st, children)

\* the Object of a handle that `add` has just issued for `geometry`
object_of(a, geometry) ==
    [st |-> a.st,
     object |-> IF Failed(a.st) THEN Null
                ELSE IF geometry.dim = 3 THEN ManifoldObject(a.idx)
                ELSE CrossSectionObject(a.idx)]

\* Interpreter::create_object_from_new_geometry
create_object_from_new_geometry(st, geometry, disposition) ==
    object_of(add(st, geometry, disposition), geometry)

\* Interpreter::accept_arguments::<N>
accept_arguments(arguments, n) == IF Len(arguments) = n THEN NoFail ELSE "IncorrectArity"

\* Interpreter::get_vec3_from_arguments
get_vec3_from_arguments(arguments) ==
    IF accept_arguments(arguments, 1) # NoFail
    THEN [NoVec EXCEPT !.err = accept_arguments(arguments, 1)]
    ELSE into_3d_vector(arguments[1])

\* Interpreter::get_vec2_from_arguments
get_vec2_from_arguments(arguments) ==
    IF accept_arguments(arguments, 1) # NoFail
    THEN [NoVec EXCEPT !.err = accept_arguments(arguments, 1)]
    ELSE into_2d_vector(arguments[1])

SetMin(S) == CHOOSE x \in S : \A y \in S : x <= y
SetMax(S) == CHOOSE x \in S : \A y \in S : x >= y
\* bounding_box() / bounding_rectangle() of the kernel; cell c spans [c-1, c]
bounding_box(cells) ==
    IF cells = {} THEN [min_point |-> 0, max_point |-> 0, size |-> 0]
    ELSE [min_point |-> SetMin(cells) - 1, max_point |-> SetMax(cells),
          size |-> SetMax(cells) - SetMin(cells) + 1]

PointObject(x, dim) ==
    IF dim = 3 THEN Vector(<<Number(x), Number(x), Number(x)>>)
    ELSE Vector(<<Number(x), Number(x)>>)

NotFound(st) == [st |-> st, found |-> FALSE, object |-> Null]

\* Object::get_field
get_field(st, value, field) ==
    IF Failed(st) THEN NotFound(st)
    ELSE IF value.type \in {"Null", "Number", "Boolean"} THEN NotFound(st)
    ELSE IF value.type = "Vector"
    THEN LET i == CASE field = "x" -> 1 [] field = "y" -> 2 [] field = "z" -> 3 [] OTHER -> 0
         IN IF i = 0 THEN NotFound(st)
            ELSE [st |-> st, found |-> TRUE,
                  object |-> IF i <= Len(value.items) THEN value.items[i] ELSE Null]
    ELSE With(get(st, value.idx), LAMBDA g :
           With(IF value.type = "Manifold" THEN 3 ELSE 2, LAMBDA want :
             IF Failed(g.st) THEN NotFound(g.st)
             ELSE IF g.entry.dim # want
             THEN NotFound(Raise(st, IF want = 3 THEN PanicExpectedManifold
                                     ELSE PanicUnwrapCrossSection))
             ELSE With(bounding_box(g.entry.cells), LAMBDA bb :
                    IF field \in {"origin", "min_point"}
                    THEN [st |-> st, found |-> TRUE,
                          object |-> PointObject(bb.min_point, want)]
                    ELSE IF field = "max_point"
                    THEN [st |-> st, found |-> TRUE,
                          object |-> PointObject(bb.max_point, want)]
                    ELSE IF field = "size"
                    THEN [st |-> st, found |-> TRUE, object |-> PointObject(bb.size, want)]
                    ELSE NotFound(st))))


Ret(st, object) == [st |-> st, object |-> object]

\* the Object::Manifold of a handle that `add` has just issued
manifold_of(a) == Ret(a.st, IF Failed(a.st) THEN Null ELSE ManifoldObject(a.idx))

\* children that are taken out of the table and put back as Physical
RECURSIVE copy_children_moving(_, _)
copy_children_moving(st, children) ==
    IF children = <<>> \/ Failed(st) THEN [st |-> st, indices |-> <<>>]
    ELSE With(remove(st, Head(children)), LAMBDA m :
           With(add(m.st, m.entry, Physical), LAMBDA a :
             With(copy_children_moving(a.st, Tail(children)), LAMBDA rest :
               [st |-> rest.st, indices |-> <<a.idx>> \o rest.indices])))

\* the copies `children` makes: get(child).clone(), then add as Physical
RECURSIVE copy_children(_, _)
copy_children(st, children) ==
    IF children = <<>> \/ Failed(st) THEN [st |-> st, indices |-> <<>>]
    ELSE With(get(st, Head(children)), LAMBDA m :
           With(add(m.st, m.entry, Physical), LAMBDA a :
             With(copy_children(a.st, Tail(children)), LAMBDA rest :
               [st |-> rest.st, indices |-> <<a.idx>> \o rest.indices])))

\* Interpreter::call_builtin_function
call_builtin_function(st, name, arguments, operator_children) ==
    IF Failed(st) THEN Ret(st, Null)
    ELSE CASE name = "cube" ->
            With(get_vec3_from_arguments(arguments), LAMBDA v :
              IF v.err # NoFail THEN Ret(Raise(st, v.err), Null)
              ELSE manifold_of(add(st, Manifold(kernel_box(v.x)), Physical)))
      [] name = "cylinder" ->
            IF accept_arguments(arguments, 2) # NoFail
            THEN Ret(Raise(st, accept_arguments(arguments, 2)), Null)
            ELSE IF as_number(arguments[1]).err # NoFail
            THEN Ret(Raise(st, as_number(arguments[1]).err), Null)
            ELSE IF as_number(arguments[2]).err # NoFail
            THEN Ret(Raise(st, as_number(arguments[2]).err), Null)
            ELSE manifold_of(add(st, Manifold(kernel_box(as_number(arguments[2]).x)),
                                 Physical))
      [] name = "square" ->
            With(get_vec2_from_arguments(arguments), LAMBDA v :
              IF v.err # NoFail THEN Ret(Raise(st, v.err), Null)
              ELSE manifold_of(add(st, CrossSection(kernel_box(v.x)), Physical)))
      [] name = "copy" ->
            IF accept_arguments(arguments, 1) # NoFail
            THEN Ret(Raise(st, accept_arguments(arguments, 1)), Null)
            ELSE IF arguments[1].type # "Manifold" THEN Ret(Raise(st, "IncorrectType"), Null)
            ELSE With(get(st, arguments[1].idx), LAMBDA m :
                   IF Failed(m.st) THEN Ret(m.st, Null)
                   ELSE manifold_of(add(m.st, m.entry, Physical)))
      [] name = "children" ->
            IF ~operator_children.some THEN Ret(Raise(st, "ChildrenInvalid"), Null)
            ELSE With(copy_children(st, operator_children.handles), LAMBDA c :
                   With(union_child_geometry(c.st, c.indices), LAMBDA u :
                     IF Failed(u.st) THEN Ret(u.st, Null)
                     ELSE create_object_from_new_geometry(u.st, u.entry, u.disposition)))
      [] name = "__debug" -> Ret(st, Null)
      [] OTHER -> Ret(Raise(st, "UndefinedIdentifier"), Null)

NoIndex(st) == [st |-> st, idx |-> 0]

\* GeometryTable::map_manifold, func given on the cells of the manifold
map_manifold(st, index, func(_)) ==
    With(remove(st, index), LAMBDA r :
      IF Failed(r.st) THEN NoIndex(r.st)
      ELSE IF r.entry.dim # 3 THEN NoIndex(Raise(r.st, PanicMapNonManifold))
      ELSE add(r.st, Manifold(func(r.entry.cells)), r.disposition))

\* Interpreter::apply_builtin_operator
apply_builtin_operator(st, name, arguments, children) ==
    IF Failed(st) THEN NoIndex(st)
    ELSE CASE name = "translate" ->
            With(union_child_geometry(st, children), LAMBDA u :
              IF Failed(u.st) THEN NoIndex(u.st)
              ELSE With(IF u.entry.dim = 3 THEN get_vec3_from_arguments(arguments)
                        ELSE get_vec2_from_arguments(arguments), LAMBDA v :
                     IF v.err # NoFail THEN NoIndex(Raise(u.st, v.err))
                     ELSE add(u.st,
                              [u.entry EXCEPT !.cells = kernel_translate(u.entry.cells, v.x)],
                              u.disposition)))
      [] name = "union" ->
            With(union_child_geometry(st, children), LAMBDA u :
              IF Failed(u.st) THEN NoIndex(u.st) ELSE add(u.st, u.entry, u.disposition))
      [] name = "difference" ->
            IF children = <<>> THEN NoIndex(Raise(st, PanicTodo))
            ELSE IF Tail(children) = <<>> THEN [st |-> st, idx |-> Head(children)]
            ELSE With(union_child_geometry(st, Tail(children)), LAMBDA u :
                   IF Failed(u.st) THEN NoIndex(u.st)
                   ELSE IF u.entry.dim # 3 THEN NoIndex(Raise(u.st, PanicExpectedManifold))
                   ELSE map_manifold(u.st, Head(children),
                                     LAMBDA m : kernel_difference(m, u.entry.cells)))
      [] name = "linear_extrude" ->
            IF accept_arguments(arguments, 1) # NoFail
            THEN NoIndex(Raise(st, accept_arguments(arguments, 1)))
            ELSE IF as_number(arguments[1]).err # NoFail
            THEN NoIndex(Raise(st, as_number(arguments[1]).err))
            ELSE With(union_child_geometry(st, children), LAMBDA u :
                   IF Failed(u.st) THEN NoIndex(u.st)
                   ELSE IF u.entry.dim # 2 THEN NoIndex(Raise(u.st, PanicUnwrapCrossSection))
                   ELSE add(u.st, Manifold(kernel_extrude(u.entry.cells)), u.disposition))
      [] name = "buffer" ->
            With(union_child_geometry(st, children), LAMBDA u :
              IF Failed(u.st) THEN NoIndex(u.st) ELSE add(u.st, u.entry, Virtual))
      [] OTHER -> NoIndex(Raise(st, "UndefinedIdentifier"))

\* the `it` state of an application: interpret, OperatorApplication, lines 192-197
it_manifold_for(manifold_children) ==
    IF Len(manifold_children) = 1 THEN ItSome(manifold_children[1])
    ELSE ItUnsupportedNotOneChild

\* the rows of the given handles, for the history of an application
RowsOf(st, handles) ==
    [i \in 1..Len(handles) |->
        IF handles[i] \in DOMAIN st.table
        THEN [present |-> TRUE, handle |-> handles[i], entry |-> st.table[handles[i]].entry,
              disposition |-> st.table[handles[i]].disposition]
        ELSE [present |-> FALSE, handle |-> handles[i], entry |-> NoEntry,
              disposition |-> Physical]]

\* the temporary Virtual copies of the children of a user-defined operator
RECURSIVE make_temporary_virtual(_, _)
make_temporary_virtual(st, children) ==
    IF children = <<>> \/ Failed(st) THEN [st |-> st, indices |-> <<>>]
    ELSE With(remove(st, Head(children)), LAMBDA r :
           With(add(r.st, r.entry, Virtual), LAMBDA a :
             With(make_temporary_virtual(a.st, Tail(children)), LAMBDA rest :
               [st |-> rest.st, indices |-> <<a.idx>> \o rest.indices])))

RECURSIVE remove_temporaries(_, _)
remove_temporaries(st, indices) ==
    IF indices = <<>> \/ Failed(st) THEN st
    ELSE remove_temporaries(remove(st, Head(indices)).st, Tail(indices))

SeqRange(s) == { s[i] : i \in DOMAIN s }
\* the HashMap collected from zip(arguments, parameters): a later pair wins
zip_arguments(arguments, parameters) ==
    [p \in SeqRange(parameters) |->
        arguments[SetMax({ i \in DOMAIN parameters : parameters[i] = p })]]

RECURSIVE interpret(_, _, _)
RECURSIVE interpret_body(_, _, _)

\* history: one binding of arguments to the parameters of a user operator
bind_logged(st, definition, arguments, outcome) ==
    [st EXCEPT !.bind_log = @ \cup
        {[parameters |-> Len(definition.parameters), arguments |-> Len(arguments),
          outcome |-> outcome]}]

\* the state in which the body of a user operator starts: a deeper scope,
\* and (history) the temporaries recorded
enter_body(t) ==
    IF Failed(t.st) THEN t.st
    ELSE with_deeper_scope([t.st EXCEPT !.temps = @ \cup SeqRange(t.indices)])

\* the context of the body of a user operator (lines 242-246)
body_context(ctx, temporaries, bound) ==
    [with_arguments(with_operator_children(with_it_manifold(ctx, ItNone), temporaries),
                    bound)
     EXCEPT !.where = "body", !.in_body = TRUE, !.kids = <<>>]

\* history: one run of the body of a user-defined operator applied in the
\* frames `scopes`
scope_logged(r, definition, scopes, outcome) ==
    [r EXCEPT !.st.scope_log = @ \cup
        {[definition |-> definition, scopes |-> scopes, outcome |-> outcome]}]

\* interpret, OperatorApplication, user-defined operator branch (lines 214-254)
apply_user_operator(node, ctx, st, definition, arguments, manifold_children) ==
    IF Len(arguments) # Len(definition.parameters)
    THEN Ret(Raise(bind_logged(st, definition, arguments, "IncorrectArity"),
                   "IncorrectArity"), Null)
    ELSE With(make_temporary_virtual(bind_logged(st, definition, arguments, NoFail),
                                     manifold_children), LAMBDA t :
         With(interpret_body(definition.body,
                             body_context(ctx, t.indices,
                                          zip_arguments(arguments, definition.parameters)),
                             enter_body(t)), LAMBDA b :
         With(filter_objects_to_physical_geometries(drop_scope(b.st, Len(st.scopes)),
                                                    b.objects), LAMBDA f :
         With(union_child_geometry(f.st, f.indices), LAMBDA u :
         With(remove_temporaries(u.st, t.indices), LAMBDA d :
           scope_logged(IF Failed(d) THEN Ret(d, Null)
                        ELSE create_object_from_new_geometry(d, u.entry, u.disposition),
                        definition, st.scopes, b.st.fail))))))

\* history: the geometry-typed objects among the children of an application
IsGeometryObject(o) == o.type \in {"Manifold", "CrossSection"}
geometry_children(objects) ==
    [i \in 1..Len(SelectSeq(objects, IsGeometryObject)) |->
        SelectSeq(objects, IsGeometryObject)[i].idx]

\* history: one application of a built-in operator
app_logged(r, name, before, children) ==
    [r.st EXCEPT !.app_log = @ \cup
        {[name |-> name, kids |-> RowsOf(before, children), outcome |-> r.st.fail,
          handle |-> r.idx, result |-> RowsOf(r.st, <<r.idx>>)[1],
          before |-> before.table, after |-> r.st.table]}]

\* history: the order of the evaluations of an operator application.  owner
\* is the position in the trace of the "apply" event of the application
traced(st, owner, role, index) ==
    IF Failed(st) THEN st
    ELSE [st EXCEPT !.trace = Append(@, [owner |-> owner, role |-> role, index |-> index])]

\* the event that opens an application: its children and arguments
opened(st, node) ==
    [st EXCEPT !.trace = Append(@, [owner |-> Len(@) + 1, role |-> "apply",
                                    index |-> 0, children |-> Len(node.children),
                                    arguments |-> Len(node.arguments)])]

\* the event that fixes the `it` state: the types of the child results and
\* how many of them count as children
counted(st, owner, objects, manifold_children) ==
    IF Failed(st) THEN st
    ELSE [st EXCEPT !.trace = Append(@, [owner |-> owner, role |-> "it", index |-> 0,
                                         types |-> [i \in DOMAIN objects |-> objects[i].type],
                                         counted |-> Len(manifold_children)])]

\* nodes.iter().map(interpret).collect() over the children or the arguments
\* of an application, with the history of each evaluation
RECURSIVE interpret_each(_, _, _, _, _, _)
interpret_each(nodes, ctx, st, owner, role, index) ==
    IF nodes = <<>> \/ Failed(st) THEN [st |-> st, objects |-> <<>>]
    ELSE With(interpret(Head(nodes), ctx, traced(st, owner, role, index)), LAMBDA r :
           With(interpret_each(Tail(nodes), ctx, r.st, owner, role, index + 1), LAMBDA rest :
             [st |-> rest.st, objects |-> <<r.object>> \o rest.objects]))

\* the rest of an application once its children and arguments are evaluated
\* (lines 214-258)
apply_operator(node, ctx, a, owner, manifold_children) ==
    IF Failed(a.st) THEN Ret(a.st, Null)
    ELSE With(traced(a.st, owner, "resolve", 0), LAMBDA st :
      IF get_operator(st.scopes, node.name).found
      THEN apply_user_operator(node, ctx, st, get_operator(st.scopes, node.name).node,
                               a.objects, manifold_children)
      ELSE With(apply_builtin_operator(st, node.name, a.objects, manifold_children),
                LAMBDA r :
             Ret(app_logged(r, node.name, st, manifold_children),
                 IF Failed(r.st) THEN Null ELSE ManifoldObject(r.idx))))

\* an application that evaluates its arguments before its children
interpret_operator_application_arguments_first(node, ctx, st) ==
    With(Len(st.trace) + 1, LAMBDA owner :
    With(interpret_each(node.arguments,
                        [with_it_manifold(ctx, ItUnsupportedNotOneChild)
                         EXCEPT !.where = "arguments"],
                        opened(st, node), owner, "argument", 1), LAMBDA a :
    With(interpret_each(node.children,
                        [with_it_manifold(ctx, ItNone) EXCEPT !.where = "child"],
                        a.st, owner, "child", 1), LAMBDA c :
    With(filter_objects_to_manifolds(c.objects), LAMBDA manifold_children :
      apply_operator(node, ctx,
                     [st |-> counted(c.st, owner, c.objects, manifold_children),
                      objects |-> a.objects],
                     owner, manifold_children)))))

\* interpret, OperatorApplication (lines 183-259)
interpret_operator_application(node, ctx, st) ==
    With(Len(st.trace) + 1, LAMBDA owner :
    With(interpret_each(node.children,
                        [with_it_manifold(ctx, ItNone) EXCEPT !.where = "child"],
                        opened(st, node), owner, "child", 1), LAMBDA c :
    With(filter_objects_to_manifolds(c.objects), LAMBDA manifold_children :
    With(interpret_each(node.arguments,
                        [with_it_manifold(ctx, it_manifold_for(manifold_children))
                         EXCEPT !.where = "arguments",
                                !.kids = geometry_children(c.objects)],
                        counted(c.st, owner, c.objects, manifold_children),
                        owner, "argument", 1), LAMBDA a :
      apply_operator(node, ctx, a, owner, manifold_children)))))

\* history: one iteration of a `for` loop that started in the frames
\* `enclosing`, entered its body with the frames `entered` and left it with
\* the frames of b
iteration_logged(b, node, enclosing, entered) ==
    [b EXCEPT !.st.loop_log = Append(@, [variable |-> node.loop_variable,
                                         enclosing |-> enclosing, entered |-> entered,
                                         left |-> b.st.scopes, outcome |-> b.st.fail])]

RECURSIVE for_iterations(_, _, _, _)
\* the loop of a ForLoop (lines 336-346): the objects of all iterations
for_iterations(items, node, ctx, st) ==
    IF items = <<>> \/ Failed(st) THEN [st |-> st, objects |-> <<>>]
    ELSE With(add_binding(with_deeper_scope(st), node.loop_variable, Head(items)),
              LAMBDA bound :
           IF ~bound.ok THEN [st |-> Raise(st, "DuplicateBinding"), objects |-> <<>>]
           ELSE With(iteration_logged(interpret_body(node.body, ctx, bound.st), node,
                                      st.scopes, bound.st.scopes), LAMBDA b :
                With(for_iterations(Tail(items), node, ctx,
                                    drop_scope(b.st, Len(st.scopes))), LAMBDA rest :
                  [st |-> rest.st, objects |-> b.objects \o rest.objects])))

\* interpret, ForLoop (lines 332-353)
interpret_for_loop(node, ctx, st) ==
    With(interpret(node.loop_source, ctx, st), LAMBDA source :
      IF Failed(source.st) THEN Ret(source.st, Null)
      ELSE IF source.object.type # "Vector" THEN Ret(Raise(source.st, "IncorrectType"), Null)
      ELSE With(for_iterations(source.object.items, node, ctx, source.st), LAMBDA loop :
           With(filter_objects_to_physical_geometries(loop.st, loop.objects), LAMBDA f :
           With(union_child_geometry(f.st, f.indices), LAMBDA u :
             IF Failed(u.st) THEN Ret(u.st, Null)
             ELSE create_object_from_new_geometry(u.st, u.entry, u.disposition)))))


\* interpret, ItReference (lines 163-181), with the history of the evaluation
interpret_it_reference(ctx, st) ==
    LET outcome == CASE ctx.it_manifold.tag = "Some" -> NoFail
                     [] ctx.it_manifold.tag = "UnsupportedNotOneChild" ->
                            "ItReferenceUnsupportedNotOneChild"
                     [] OTHER -> "ItReferenceInvalid"
        logged == [st EXCEPT !.it_log = @ \cup
                      {[where |-> ctx.where, kids |-> ctx.kids, outcome |-> outcome,
                        idx |-> ctx.it_manifold.idx]}]
    IN IF outcome = NoFail THEN Ret(logged, ManifoldObject(ctx.it_manifold.idx))
       ELSE Ret(Raise(logged, outcome), Null)

\* history: one call of `children`
children_logged(r, ctx, before) ==
    [r.st EXCEPT !.children_log = @ \cup
        {[in_body |-> ctx.in_body, outcome |-> r.st.fail, object |-> r.object,
          kids |-> RowsOf(before, ctx.operator_children.handles),
          after |-> RowsOf(r.st, ctx.operator_children.handles),
          next_index |-> before.next_index,
          result |-> IF IsGeometryObject(r.object) THEN RowsOf(r.st, <<r.object.idx>>)
                     ELSE <<>>]}]

\* interpret, Call (lines 261-266)
interpret_call(node, ctx, st) ==
    With(interpret_body(node.arguments, ctx, st), LAMBDA a :
      IF Failed(a.st) THEN Ret(a.st, Null)
      ELSE With(call_builtin_function(a.st, node.name, a.objects, ctx.operator_children),
                LAMBDA r :
             IF node.name = "children" THEN Ret(children_logged(r, ctx, a.st), r.object)
             ELSE r))

\* interpret, Binding (lines 268-288)
interpret_binding(node, ctx, st) ==
    With(interpret(node.value, ctx, st), LAMBDA value :
      IF Failed(value.st) THEN Ret(value.st, Null)
      ELSE IF node.name \in DOMAIN ctx.arguments
      THEN Ret(Raise(value.st, "DuplicateBinding"), Null)
      ELSE With(add_binding(value.st, node.name, value.object), LAMBDA bound :
             IF ~bound.ok THEN Ret(Raise(value.st, "DuplicateBinding"), Null)
             ELSE Ret(bound.st, value.object)))

\* the loop of a range literal: `while current < end { current += 1.0; push }`;
\* `one` is 1.0 in the unit the numbers are counted in
RECURSIVE range_loop(_, _, _, _)
range_loop(current, end, one, items) ==
    IF current < end
    THEN range_loop(current + one, end, one, Append(items, current + one))
    ELSE items

\* the items of [start:end], or FlippedRange
vector_range(start, end, one) ==
    IF end < start THEN [err |-> "FlippedRange", items |-> <<>>]
    ELSE [err |-> NoFail, items |-> range_loop(start, end, one, <<start>>)]

\* interpret, VectorRangeLiteral (lines 142-161)
interpret_vector_range_literal(node, ctx, st) ==
    With(interpret(node.start, ctx, st), LAMBDA s :
      IF Failed(s.st) THEN Ret(s.st, Null)
      ELSE IF as_number(s.object).err # NoFail
      THEN Ret(Raise(s.st, as_number(s.object).err), Null)
      ELSE With(interpret(node.end, ctx, s.st), LAMBDA e :
             IF Failed(e.st) THEN Ret(e.st, Null)
             ELSE IF as_number(e.object).err # NoFail
             THEN Ret(Raise(e.st, as_number(e.object).err), Null)
             ELSE With(vector_range(s.object.num, e.object.num, 1), LAMBDA range :
                    IF range.err # NoFail THEN Ret(Raise(e.st, range.err), Null)
                    ELSE Ret(e.st, Vector([i \in DOMAIN range.items |->
                                              Number(range.items[i])])))))

\* BinaryOperator applied to two numbers; the model's numbers are integers
\* and Divide is the integer quotient, NaN for 0 / 0 and an infinity for x / 0
binary_result(op, l, r) ==
    CASE op = "Add" -> Number(l + r)
      [] op = "Subtract" -> Number(l - r)
      [] op = "Multiply" -> Number(l * r)
      [] op = "Divide" -> IF r # 0 THEN Number(l \div r)
                          ELSE IF l = 0 THEN NotANumber ELSE Infinity(l > 0)

\* interpret, BinaryOperation (lines 303-315)
interpret_binary_operation(node, ctx, st) ==
    With(interpret(node.left, ctx, st), LAMBDA l :
      IF Failed(l.st) THEN Ret(l.st, Null)
      ELSE IF as_number(l.object).err # NoFail
      THEN Ret(Raise(l.st, as_number(l.object).err), Null)
      ELSE With(interpret(node.right, ctx, l.st), LAMBDA r :
             IF Failed(r.st) THEN Ret(r.st, Null)
             ELSE IF as_number(r.object).err # NoFail
             THEN Ret(Raise(r.st, as_number(r.object).err), Null)
             ELSE Ret(r.st, binary_result(node.op, l.object.num, r.object.num))))

\* Interpreter::interpret
interpret(node, ctx, st) ==
    IF Failed(st) THEN Ret(st, Null)
    ELSE CASE node.kind = "Identifier" ->
            IF node.id \in DOMAIN ctx.arguments THEN Ret(st, ctx.arguments[node.id])
            ELSE IF get_binding(st.scopes, node.id).found
            THEN Ret(st, get_binding(st.scopes, node.id).object)
            ELSE Ret(Raise(st, "UndefinedIdentifier"), Null)
      [] node.kind = "NumberLiteral" -> Ret(st, Number(node.num))
      [] node.kind = "VectorLiteral" ->
            With(interpret_body(node.items, ctx, st), LAMBDA items :
              IF Failed(items.st) THEN Ret(items.st, Null)
              ELSE Ret(items.st, Vector(items.objects)))
      [] node.kind = "VectorRangeLiteral" -> interpret_vector_range_literal(node, ctx, st)
      [] node.kind = "ItReference" -> interpret_it_reference(ctx, st)
      [] node.kind = "OperatorApplication" -> interpret_operator_application(node, ctx, st)
      [] node.kind = "Call" -> interpret_call(node, ctx, st)
      [] node.kind = "Binding" -> interpret_binding(node, ctx, st)
      [] node.kind = "FieldAccess" ->
            With(interpret(node.value, ctx, st), LAMBDA value :
              With(get_field(value.st, value.object, node.field), LAMBDA field :
                IF Failed(field.st) THEN Ret(field.st, Null)
                ELSE IF field.found THEN Ret(field.st, field.object)
                ELSE Ret(Raise(field.st, "UndefinedField"), Null)))
      [] node.kind = "BinaryOperation" -> interpret_binary_operation(node, ctx, st)
      [] node.kind = "UnaryNegate" ->
            With(interpret(node.value, ctx, st), LAMBDA value :
              IF Failed(value.st) THEN Ret(value.st, Null)
              ELSE IF as_number(value.object).err # NoFail
              THEN Ret(Raise(value.st, as_number(value.object).err), Null)
              ELSE Ret(value.st, Number(0 - value.object.num)))
      [] node.kind = "OperatorDefinition" ->
            With(add_operator(st, node.name, node), LAMBDA added :
              IF added.ok THEN Ret(added.st, Null)
              ELSE Ret(Raise(st, "DuplicateBinding"), Null))
      [] node.kind = "ForLoop" -> interpret_for_loop(node, ctx, st)

\* Interpreter::interpret_body: nodes.iter().map(interpret).collect(), which
\* stops at the first error
interpret_body(nodes, ctx, st) ==
    IF nodes = <<>> \/ Failed(st) THEN [st |-> st, objects |-> <<>>]
    ELSE With(interpret(Head(nodes), ctx, st), LAMBDA r :
           With(interpret_body(Tail(nodes), ctx, r.st), LAMBDA rest :
             [st |-> rest.st, objects |-> <<r.object>> \o rest.objects]))

\* Interpreter::build_top_level_manifold: the cells of the result, or the panic
build_top_level_manifold(t) ==
    IF \E h \in DOMAIN t : t[h].disposition = Physical /\ t[h].entry.dim # 3
    THEN [panic |-> PanicTopLevel2D, cells |-> {}]
    ELSE [panic |-> NoFail,
          cells |-> UNION { t[h].entry.cells : h \in { k \in DOMAIN t : t[k].disposition = Physical } }]


(***************************************************************************)
(* AST nodes (parse.rs, NodeKind), as the interpreter above reads them.    *)
(***************************************************************************)
Identifier(id) == [kind |-> "Identifier", id |-> id]
NumberLiteral(n) == [kind |-> "NumberLiteral", num |-> n]
VectorLiteral(items) == [kind |-> "VectorLiteral", items |-> items]
VectorRangeLiteral(s, e) == [kind |-> "VectorRangeLiteral", start |-> s, end |-> e]
ItReference == [kind |-> "ItReference"]
OperatorApplication(name, arguments, children) ==
    [kind |-> "OperatorApplication", name |-> name, arguments |-> arguments,
     children |-> children]
Call(name, arguments) == [kind |-> "Call", name |-> name, arguments |-> arguments]
Binding(name, value) == [kind |-> "Binding", name |-> name, value |-> value]
FieldAccess(value, field) == [kind |-> "FieldAccess", value |-> value, field |-> field]
OperatorDefinition(name, parameters, body) ==
    [kind |-> "OperatorDefinition", name |-> name, parameters |-> parameters, body |-> body]
ForLoop(loop_variable, loop_source, body) ==
    [kind |-> "ForLoop", loop_variable |-> loop_variable, loop_source |-> loop_source,
     body |-> body]

(***************************************************************************)
(* The programs explored: every sequence of at most MaxStmts top-level     *)
(* statements drawn from the sets below.                                   *)
(***************************************************************************)
One == NumberLiteral(1)
Vec3 == VectorLiteral(<<One, One, One>>)
Cube(n) == Call("cube", <<VectorLiteral(<<NumberLiteral(n), One, One>>)>>)
Square(n) == Call("square", <<VectorLiteral(<<NumberLiteral(n), One>>)>>)
Children == Call("children", <<>>)
A == Identifier("a")

CallStmts ==
    { Cube(1), Cube(NumCells), Square(1), Call("cube", <<>>), Call("copy", <<A>>), Children,
      Call("cylinder", <<One, One>>), Call("__debug", <<A>>), Call("sphere", <<>>) }

BindingStmts ==
    { Binding("a", Cube(NumCells)), Binding("a", Square(1)),
      Binding("a", OperatorApplication("buffer", <<>>, <<Cube(1)>>)),
      Binding("b", A), Binding("a", One), Binding("cube", One), Binding("foo", One) }

KidLists ==
    { <<>>, <<Cube(1)>>, <<Square(1)>>, <<A>>, <<A, A>>, <<Cube(NumCells), Cube(1)>>,
      <<Cube(1), Square(1)>>, <<Cube(NumCells), A>>, <<A, Cube(1)>>, <<One>> }

BuiltinHeads ==
    { <<"translate", <<Vec3>>>>, <<"union", <<>>>>, <<"difference", <<>>>>,
      <<"linear_extrude", <<One>>>>, <<"buffer", <<>>>> }

BuiltinApplicationStmts ==
    { OperatorApplication(h[1], h[2], k) : h \in BuiltinHeads, k \in KidLists } \cup
    { OperatorApplication("translate", <<FieldAccess(ItReference, "size")>>, <<Cube(NumCells)>>),
      OperatorApplication("union", <<>>, <<ItReference>>),
      OperatorApplication("rotate", <<Vec3>>, <<Cube(1)>>) } \cup
    { OperatorApplication("translate", <<ItReference>>, k) :
        k \in { <<>>, <<Cube(1)>>, <<Cube(1), Cube(1)>>, <<One, Cube(1)>>,
                <<ForLoop("i", VectorRangeLiteral(One, One), <<Square(1)>>)>> } }

UserApplicationStmts ==
    { OperatorApplication("foo", a, k) :
        a \in { <<>>, <<One>>, <<ItReference>> },
        k \in { <<>>, <<Cube(1)>>, <<Cube(NumCells), Square(1)>>, <<A>> } }

Bodies ==
    { <<Children>>, <<>>, <<Identifier("nope")>>, <<ItReference>>, <<Cube(1)>>,
      <<Children, Children>>,
      <<OperatorApplication("translate", <<Vec3>>, <<Children>>)>>,
      <<Binding("a", Cube(1)), OperatorApplication("union", <<>>, <<A>>)>>,
      <<Identifier("i"), Children>>, <<Binding("i", One), Children>> }

OperatorDefinitionStmts ==
    { OperatorDefinition("foo", p, b) : p \in { <<>>, <<"p">> }, b \in Bodies } \cup
    { OperatorDefinition("a", <<>>, <<>>), OperatorDefinition("union", <<>>, <<Children>>) }

ForLoopStmts ==
    { ForLoop("i", VectorRangeLiteral(One, NumberLiteral(2)), <<Cube(1)>>),
      ForLoop("i", Vec3, <<Binding("c", Square(1))>>),
      ForLoop("i", One, <<Cube(1)>>),
      ForLoop("i", VectorRangeLiteral(One, NumberLiteral(2)),
              <<Binding("c", Identifier("i")), OperatorDefinition("bar", <<>>, <<>>),
                Cube(1)>>),
      ForLoop("a", Vec3, <<Cube(1)>>),
      ForLoop("i", VectorRangeLiteral(One, One),
              <<OperatorApplication("foo", <<>>, <<Cube(1)>>)>>) }

ExpressionStmts ==
    { ItReference, A, FieldAccess(A, "size"), FieldAccess(A, "nope") }

(***************************************************************************)
(* The interpreter as a state machine: one step per top-level statement    *)
(* (interpret_top_level), then final assembly (build_model).               *)
(***************************************************************************)
NoObs == [kind |-> "none"]

Init ==
    /\ table = [h \in {} |-> [entry |-> NoEntry, disposition |-> Physical]]
    /\ next_index = 1
    /\ scope = new_root
    /\ phase = "running"
    /\ fail = NoFail
    /\ final = {}
    /\ steps = 0
    /\ issued = {}
    /\ obs = NoObs

\* the interpreter state at the start of an operation
Current ==
    [table |-> table, next_index |-> next_index, fail |-> NoFail, added |-> <<>>,
     scopes |-> <<scope>>, temps |-> {}, it_log |-> {}, children_log |-> {},
     bind_log |-> {}, app_log |-> {}, trace |-> <<>>, loop_log |-> <<>>,
     scope_log |-> {}]

\* interpret_top_level goes on while no statement has failed
Ready == phase = "running" /\ steps < MaxStmts

\* one iteration of Interpreter::interpret_top_level
Run(node) ==
    /\ With(interpret(node, new_context, Current), LAMBDA r :
          /\ table' = r.st.table
          /\ next_index' = r.st.next_index
          /\ scope' = r.st.scopes[1]
          /\ fail' = r.st.fail
          /\ phase' = IF r.st.fail = NoFail THEN "running"
                      ELSE IF IsPanic(r.st.fail) THEN "panic" ELSE "error"
          /\ issued' = issued \cup SeqRange(r.st.added)
          /\ obs' = [kind |-> "statement", node |-> node, before |-> table,
                     scope_before |-> scope,
                     added |-> r.st.added, temps |-> r.st.temps, it_log |-> r.st.it_log,
                     children_log |-> r.st.children_log, bind_log |-> r.st.bind_log,
                     app_log |-> r.st.app_log, trace |-> r.st.trace,
                     loop_log |-> r.st.loop_log, scope_log |-> r.st.scope_log])
    /\ steps' = steps + 1
    /\ final' = final

CallStatement == Ready /\ \E node \in CallStmts : Run(node)
BindingStatement == Ready /\ \E node \in BindingStmts : Run(node)
BuiltinApplicationStatement == Ready /\ \E node \in BuiltinApplicationStmts : Run(node)
UserApplicationStatement == Ready /\ \E node \in UserApplicationStmts : Run(node)
OperatorDefinitionStatement == Ready /\ \E node \in OperatorDefinitionStmts : Run(node)
ForLoopStatement == Ready /\ \E node \in ForLoopStmts : Run(node)
ExpressionStatement == Ready /\ \E node \in ExpressionStmts : Run(node)

\* build_model: interpret_top_level returned Ok, so build_top_level_manifold runs
FinalAssembly ==
    /\ phase = "running"
    /\ LET m == build_top_level_manifold(table)
       IN /\ phase' = IF m.panic = NoFail THEN "assembled" ELSE "panic"
          /\ fail' = m.panic
          /\ final' = m.cells
    /\ obs' = [kind |-> "final", before |-> table]
    /\ UNCHANGED <<table, next_index, scope, steps, issued>>

Next ==
    \/ CallStatement
    \/ BindingStatement
    \/ BuiltinApplicationStatement
    \/ UserApplicationStatement
    \/ OperatorDefinitionStatement
    \/ ForLoopStatement
    \/ ExpressionStatement
    \/ FinalAssembly

Spec == Init /\ [][Next]_vars


(***************************************************************************)
(* The geometry table and the operator catalogue on their own: any         *)
(* sequence of add, remove, map, remove_many_into_union and catalogue      *)
(* operators applied to live handles.                                      *)
(***************************************************************************)
EvaluatedParameters(required, optional, optional_named_only) ==
    [required |-> required, optional |-> optional,
     optional_named_only |-> optional_named_only]

\* the `parameters` of each definition of builtin/operators.rs
builtin_operator_parameters(name) ==
    IF name \in {"translate", "rotate", "scale", "mirror"}
    THEN EvaluatedParameters(<<"v">>, <<>>, <<>>)
    ELSE IF name = "linear_extrude" THEN EvaluatedParameters(<<"h">>, <<>>, <<>>)
    ELSE EvaluatedParameters(<<>>, <<>>, <<>>)

\* GeometryTable::add_into_object
add_into_object(st, geometry, disposition) ==
    object_of(add(st, geometry, disposition), geometry)

\* the application of a catalogue operator: the action consumes the children
\* and what it returns is inserted
apply_catalog_operator(st, name, arguments, children) ==
    With(get_builtin_operator(name, st, arguments, children), LAMBDA r :
      With(add_into_object(r.st, r.entry, r.disposition), LAMBDA o :
        [st |-> o.st, entry |-> r.entry, disposition |-> r.disposition,
         object |-> o.object]))

ArgumentValues ==
    { Vector(<<Number(1), Number(1)>>), Vector(<<Number(1), Number(1), Number(1)>>) }

\* the sequences of distinct live handles a caller can hold
HandleSeqs(S) ==
    { s \in UNION { [1..n -> S] : n \in 0..MaxUnion } :
        \A i, j \in DOMAIN s : i # j => s[i] # s[j] }

\* the variables after an operation on the table that ended in st
TableStep(st, o) ==
    /\ table' = st.table
    /\ next_index' = st.next_index
    /\ fail' = st.fail
    /\ phase' = IF st.fail = NoFail THEN "running"
                ELSE IF IsPanic(st.fail) THEN "panic" ELSE "error"
    /\ issued' = issued \cup SeqRange(st.added)
    /\ steps' = steps + 1
    /\ obs' = o
    /\ UNCHANGED <<scope, final>>

TableReady == phase = "running" /\ steps < MaxOps

TableAdd ==
    /\ TableReady
    /\ \E dim \in {2, 3}, d \in {Physical, Virtual} :
          LET n == 1 + ((next_index - 1) % NumCells)
              a == add(Current, [dim |-> dim, cells |-> kernel_box(n)], d)
          IN TableStep(a.st, [kind |-> "add", added |-> a.st.added, issued |-> issued,
                              before |-> table, handle |-> a.idx])

TableRemove ==
    /\ TableReady
    /\ \E h \in DOMAIN table :
          LET r == remove(Current, h)
          IN TableStep(r.st, [kind |-> "remove", added |-> r.st.added, issued |-> issued,
                              before |-> table, handle |-> h])

TableMap ==
    /\ TableReady
    /\ \E h \in DOMAIN table :
          LET m == map(Current, h, LAMBDA e : [e EXCEPT !.cells = kernel_translate(e.cells, 1)])
          IN TableStep(m.st, [kind |-> "map", added |-> m.st.added, issued |-> issued,
                              before |-> table, handle |-> m.idx,
                              given |-> RowsOf(Current, <<h>>)])

TableUnionMany ==
    /\ TableReady
    /\ \E hs \in HandleSeqs(DOMAIN table) :
          With(remove_many_into_union(Current, hs), LAMBDA u :
            TableStep([u.st EXCEPT !.fail = IF IsPanic(@) THEN @ ELSE NoFail],
                      [kind |-> "union_many", added |-> u.st.added, issued |-> issued,
                       given |-> RowsOf(Current, hs), before |-> table,
                       outcome |-> u.st.fail, entry |-> u.entry,
                       disposition |-> u.disposition]))

CatalogOperator ==
    /\ TableReady
    /\ \E name \in BuiltinOperators, hs \in HandleSeqs(DOMAIN table), v \in ArgumentValues :
          With(apply_catalog_operator(
                 Current, name,
                 [p \in SeqRange(builtin_operator_parameters(name).required) |->
                     IF p = "h" THEN Number(1) ELSE v],
                 hs),
               LAMBDA r :
                 TableStep(r.st, [kind |-> "operator", name |-> name, added |-> r.st.added,
                                  issued |-> issued, given |-> RowsOf(Current, hs),
                                  before |-> table, outcome |-> r.st.fail,
                                  entry |-> r.entry, disposition |-> r.disposition]))

NextTable ==
    \/ TableAdd
    \/ TableRemove
    \/ TableMap
    \/ TableUnionMany
    \/ CatalogOperator

SpecTable == Init /\ [][NextTable]_vars


(***************************************************************************)
(* Argument binding.  builtin/modules.rs and builtin/operators.rs declare  *)
(* each callee's parameters as EvaluatedParameters and let the action      *)
(* index the bound map by name; the binder itself is not among the         *)
(* sources, so match_arguments follows section 4.7 of the specification.   *)
(***************************************************************************)
Optional(name, default) == [name |-> name, default |-> default]

\* the `parameters` of each definition of builtin/modules.rs
cube_parameters == EvaluatedParameters(<<"size">>, <<>>, <<>>)
\* a cylinder whose diameter can also be passed by position
cylinder_parameters_positional_d ==
    EvaluatedParameters(<<"h">>, <<Optional("r", Null), Optional("d", Null)>>, <<>>)

cylinder_parameters ==
    EvaluatedParameters(<<"h">>, <<Optional("r", Null)>>, <<Optional("d", Null)>>)
square_parameters == EvaluatedParameters(<<"size">>, <<>>, <<>>)
circle_parameters ==
    EvaluatedParameters(<<>>, <<Optional("r", Null)>>, <<Optional("d", Null)>>)
copy_parameters == EvaluatedParameters(<<"source">>, <<>>, <<>>)
children_parameters == EvaluatedParameters(<<>>, <<>>, <<>>)
debug_parameters == EvaluatedParameters(<<"o">>, <<>>, <<>>)

BuiltinModules == {"cube", "cylinder", "square", "circle", "copy", "children", "__debug"}

\* get_builtin_module(name).parameters
get_builtin_module(name) ==
    CASE name = "cube" -> cube_parameters
      [] name = "cylinder" -> cylinder_parameters
      [] name = "square" -> square_parameters
      [] name = "circle" -> circle_parameters
      [] name = "copy" -> copy_parameters
      [] name = "children" -> children_parameters
      [] name = "__debug" -> debug_parameters

\* the keys of the argument map that the action of a module indexes
module_reads(name) ==
    CASE name = "cube" -> {"size"}
      [] name = "cylinder" -> {"h", "r", "d"}
      [] name = "square" -> {"size"}
      [] name = "circle" -> {"r", "d"}
      [] name = "copy" -> {"source"}
      [] name = "children" -> {}
      [] name = "__debug" -> {"o"}

\* the keys of the argument map that the action of an operator indexes
operator_reads(name) ==
    IF name \in {"translate", "rotate", "scale", "mirror"} THEN {"v"}
    ELSE IF name = "linear_extrude" THEN {"h"} ELSE {}

Callees ==
    { [kind |-> "module", name |-> n] : n \in BuiltinModules } \cup
    { [kind |-> "operator", name |-> n] : n \in BuiltinOperators }

parameters_of(callee) ==
    IF callee.kind = "module" THEN get_builtin_module(callee.name)
    ELSE builtin_operator_parameters(callee.name)

reads_of(callee) ==
    IF callee.kind = "module" THEN module_reads(callee.name)
    ELSE operator_reads(callee.name)

Names(optionals) == [i \in DOMAIN optionals |-> optionals[i].name]

\* the parameters a positional argument can fill, in definition order
positions(parameters) == parameters.required \o Names(parameters.optional)

\* every declared name
declared(parameters) ==
    SeqRange(parameters.required) \cup SeqRange(Names(parameters.optional)) \cup
    SeqRange(Names(parameters.optional_named_only))

\* step 2 of section 4.7: the named arguments, in the order written
RECURSIVE bind_named(_, _, _, _)
bind_named(parameters, named, filled, bound) ==
    IF named = <<>> THEN [err |-> NoFail, bound |-> bound]
    ELSE IF Head(named).name \notin declared(parameters)
    THEN [err |-> "UndefinedNamedArgument", bound |-> bound]
    ELSE IF Head(named).name \in filled
    THEN [err |-> "NamedArgumentRepeatsPositionalArgument", bound |-> bound]
    ELSE IF Head(named).name \in DOMAIN bound
    THEN [err |-> "DuplicateNamedArgument", bound |-> bound]
    ELSE bind_named(parameters, Tail(named), filled,
                    Put(bound, Head(named).name, Head(named).value))

\* step 4 of section 4.7: an unbound optional parameter takes its default
RECURSIVE bind_defaults(_, _)
bind_defaults(optionals, bound) ==
    IF optionals = <<>> THEN bound
    ELSE bind_defaults(Tail(optionals),
                       IF Head(optionals).name \in DOMAIN bound THEN bound
                       ELSE Put(bound, Head(optionals).name, Head(optionals).default))

\* section 4.7, steps 1 to 4
match_arguments(parameters, positional, named) ==
    IF Len(positional) > Len(positions(parameters))
    THEN [err |-> "IncorrectArity", missing |-> {}, arguments |-> EmptyMap]
    ELSE With(bind_named(parameters, named,
                         { positions(parameters)[i] : i \in DOMAIN positional },
                         [p \in { positions(parameters)[i] : i \in DOMAIN positional } |->
                             positional[CHOOSE i \in DOMAIN positional :
                                           positions(parameters)[i] = p]]),
              LAMBDA n :
           IF n.err # NoFail THEN [err |-> n.err, missing |-> {}, arguments |-> EmptyMap]
           ELSE IF SeqRange(parameters.required) \ DOMAIN n.bound # {}
           THEN [err |-> "MissingNamedArguments",
                 missing |-> SeqRange(parameters.required) \ DOMAIN n.bound,
                 arguments |-> EmptyMap]
           ELSE [err |-> NoFail, missing |-> {},
                 arguments |-> bind_defaults(
                     parameters.optional \o parameters.optional_named_only, n.bound)])

\* the calls explored
ArgumentNames == {"h", "r", "d", "size", "v", "nope"}
PositionalArguments ==
    UNION { [1..n -> {Number(1), Number(2)}] : n \in 0..MaxPositional }
NamedArguments ==
    UNION { [1..n -> { [name |-> a, value |-> Number(3)] : a \in ArgumentNames }] :
            n \in 0..MaxNamed }

\* a call about to be bound
InitBind ==
    /\ table = [h \in {} |-> [entry |-> NoEntry, disposition |-> Physical]]
    /\ next_index = 1
    /\ scope = new_root
    /\ phase = "running"
    /\ fail = NoFail
    /\ final = {}
    /\ steps = 0
    /\ issued = {}
    /\ \E callee \in Callees, positional \in PositionalArguments, named \in NamedArguments :
          obs = [kind |-> "call", callee |-> callee, positional |-> positional,
                 named |-> named]

\* the call's arguments are matched to the callee's parameters
BindArguments ==
    /\ obs.kind = "call"
    /\ With(match_arguments(parameters_of(obs.callee), obs.positional, obs.named),
            LAMBDA m :
              /\ obs' = [kind |-> "bound", callee |-> obs.callee,
                         positional |-> obs.positional, named |-> obs.named,
                         outcome |-> m.err, missing |-> m.missing,
                         arguments |-> m.arguments]
              /\ fail' = m.err
              /\ phase' = IF m.err = NoFail THEN "bound" ELSE "error")
    /\ steps' = steps + 1
    /\ UNCHANGED <<table, next_index, scope, final, issued>>

NextBind == BindArguments

SpecBind == InitBind /\ [][NextBind]_vars


(***************************************************************************)
(* Properties of the interpreter (Spec).                                   *)
(***************************************************************************)

\* C1: interpretation never reads or removes a handle that is absent from
\* the geometry table, so the "geometry not in table" panic is unreachable,
\* also when a geometry is bound to a name and the name is used again.
C1_NoAbsentHandle == fail # PanicNotInTable

\* C2: when the application of a user-defined operator returns, with a value
\* or with a runtime error, none of the temporary Virtual copies it made of
\* its children is left in the geometry table.
C2_TemporariesReleased ==
    (obs.kind = "statement" /\ phase \in {"running", "error"})
        => obs.temps \cap DOMAIN table = {}

\* C6: final assembly succeeds and its result is the union of exactly the
\* Physical entries of the table, a Physical 2D entry taking part as a slab.
C6_FinalAssemblyOfPhysical ==
    obs.kind = "final" =>
        /\ phase = "assembled"
        /\ final = UNION { obs.before[h].entry.cells :
                           h \in { k \in DOMAIN obs.before :
                                     obs.before[k].disposition = Physical } }

KidsLive(kids) ==
    /\ \A i \in DOMAIN kids : kids[i].present
    /\ \A i, j \in DOMAIN kids : i # j => kids[i].handle # kids[j].handle

\* what the claim C7 asks of one application of `difference` to `kids`
DifferenceContract(kids, outcome, result) ==
    /\ Len(kids) = 0 => outcome = "ChildrenExpected"
    /\ Len(kids) = 1 =>
          /\ outcome = NoFail
          /\ result.entry = kids[1].entry
          /\ result.disposition = kids[1].disposition
    /\ (/\ Len(kids) >= 2
        /\ \E i \in 2..Len(kids) : kids[i].entry.dim # kids[1].entry.dim
        /\ \A i, j \in 2..Len(kids) : kids[i].disposition = kids[j].disposition)
          => outcome = "MixedGeometryDimensions"
    /\ (Len(kids) >= 2 /\ outcome = NoFail) =>
          /\ result.entry.dim = kids[1].entry.dim
          /\ result.entry.cells =
                kids[1].entry.cells \ UNION { kids[i].entry.cells : i \in 2..Len(kids) }

\* the `difference` of the operator catalogue (builtin/operators.rs) keeps
\* the contract that C7 asks for
CatalogDifferenceKeepsContract ==
    (obs.kind = "operator" /\ obs.name = "difference")
        => DifferenceContract(obs.given, obs.outcome, obs)

\* C7: `difference` with no child fails with ChildrenExpected, with one child
\* returns that child unchanged, with two or more returns the first minus
\* the union of the rest, and fails with MixedGeometryDimensions when the
\* dimension of the first differs from that of the rest.
C7_Difference ==
    obs.kind = "statement" =>
        \A e \in obs.app_log :
            (e.name = "difference" /\ KidsLive(e.kids))
                => DifferenceContract(e.kids, e.outcome, e.result)

\* C8: `it` outside the arguments of an application fails with
\* ItReferenceInvalid; in the arguments of an application whose children
\* yield no or several geometries it fails with
\* ItReferenceUnsupportedNotOneChild; with exactly one geometry child it is
\* that child's handle; `children()` outside the body of a user-defined
\* operator fails with ChildrenInvalid.
C8_ItAndChildren ==
    obs.kind = "statement" =>
        /\ \A e \in obs.it_log :
              /\ e.where # "arguments" => e.outcome = "ItReferenceInvalid"
              /\ (e.where = "arguments" /\ Len(e.kids) # 1)
                    => e.outcome = "ItReferenceUnsupportedNotOneChild"
              /\ (e.where = "arguments" /\ Len(e.kids) = 1)
                    => (e.outcome = NoFail /\ e.idx = e.kids[1])
        /\ \A c \in obs.children_log : ~c.in_body => c.outcome = "ChildrenInvalid"

\* C9: binding the arguments of a user-defined operator fails with
\* IncorrectArity when there are more arguments than parameters and with
\* MissingNamedArguments when a required parameter is left unbound, and
\* succeeds otherwise.
C9_BindingErrors ==
    obs.kind = "statement" =>
        \A e \in obs.bind_log :
            /\ e.arguments > e.parameters => e.outcome = "IncorrectArity"
            /\ e.arguments < e.parameters => e.outcome = "MissingNamedArguments"
            /\ e.arguments = e.parameters => e.outcome = NoFail

(***************************************************************************)
(* Properties of the geometry table and the operator catalogue             *)
(* (SpecTable).                                                            *)
(***************************************************************************)

\* C3: `buffer` yields a Virtual geometry, and a built-in operator applied
\* to children of which at least one is Virtual never yields a Physical one.
C3_DispositionClosure ==
    (obs.kind = "operator" /\ obs.outcome = NoFail) =>
        /\ obs.name = "buffer" => obs.disposition = Virtual
        /\ (\E i \in DOMAIN obs.given : obs.given[i].disposition = Virtual)
              => /\ obs.disposition # Physical
                 /\ \A h \in SeqRange(obs.added) : table[h].disposition # Physical

\* C4: every handle the table issues is larger than every handle issued
\* before it, so no two issued handles are equal and the handle of a
\* removed entry is never issued again.
C4_HandlesFresh ==
    obs.kind \in {"add", "remove", "map", "union_many", "operator"} =>
        \A i \in DOMAIN obs.added :
            /\ obs.added[i] \notin obs.issued
            /\ \A h \in obs.issued : h < obs.added[i]
            /\ \A j \in DOMAIN obs.added : j < i => obs.added[j] < obs.added[i]
            /\ obs.added[i] \in DOMAIN table

\* an entry was removed and a handle was issued after that
C4_Witness ==
    /\ obs.kind \in {"add", "map"}
    /\ obs.added # <<>>
    /\ \E h \in obs.issued : h \notin DOMAIN obs.before

Uniform(given, field(_)) == \A i, j \in DOMAIN given : field(given[i]) = field(given[j])
DimOf(row) == row.entry.dim
DispositionOf(row) == row.disposition

\* C5: remove_many_into_union on two or more handles succeeds exactly when
\* all entries have one dimension and one disposition, and then returns
\* their union with that disposition; mixed dispositions fail with
\* MixedGeometryDisposition, mixed dimensions (of entries of one
\* disposition) with MixedGeometryDimensions; either way every given handle
\* has left the table and the result has not been inserted.
C5_UnionMany ==
    (obs.kind = "union_many" /\ Len(obs.given) >= 2) =>
        /\ obs.outcome = NoFail
              <=> (Uniform(obs.given, DimOf) /\ Uniform(obs.given, DispositionOf))
        /\ ~Uniform(obs.given, DispositionOf) => obs.outcome = "MixedGeometryDisposition"
        /\ (Uniform(obs.given, DispositionOf) /\ ~Uniform(obs.given, DimOf))
              => obs.outcome = "MixedGeometryDimensions"
        /\ obs.outcome = NoFail =>
              /\ obs.disposition = obs.given[1].disposition
              /\ obs.entry.dim = obs.given[1].entry.dim
              /\ obs.entry.cells = UNION { obs.given[i].entry.cells : i \in DOMAIN obs.given }
        /\ DOMAIN table = DOMAIN obs.before \ { obs.given[i].handle : i \in DOMAIN obs.given }
        /\ obs.added = <<>>

\* three Virtual entries of one dimension were united
C5_Witness ==
    /\ obs.kind = "union_many"
    /\ Len(obs.given) = 3
    /\ obs.outcome = NoFail
    /\ obs.disposition = Virtual
    /\ DOMAIN table = {}

(***************************************************************************)
(* Properties of argument binding (SpecBind).                              *)
(***************************************************************************)
NamedOf(call) == { call.named[i].name : i \in DOMAIN call.named }

Denominator == 2
MaxRange == 3

RangeNumbers == (0 - MaxRange * Denominator)..(MaxRange * Denominator)

\* a freshly constructed interpreter
Unstarted ==
    /\ table = [h \in {} |-> [entry |-> NoEntry, disposition |-> Physical]]
    /\ next_index = 1
    /\ scope = new_root
    /\ phase = "running"
    /\ fail = NoFail
    /\ final = {}
    /\ steps = 0
    /\ issued = {}

InitRange ==
    /\ Unstarted
    /\ \E start \in RangeNumbers, end \in RangeNumbers :
          obs = [kind |-> "range", start |-> start, end |-> end]

\* interpret on a VectorRangeLiteral whose bounds evaluated to start and end
EvaluateRange ==
    /\ obs.kind = "range"
    /\ With(vector_range(obs.start, obs.end, Denominator), LAMBDA r :
          /\ obs' = [kind |-> "ranged", start |-> obs.start, end |-> obs.end,
                     outcome |-> r.err, items |-> r.items]
          /\ fail' = r.err
          /\ phase' = IF r.err = NoFail THEN "running" ELSE "error")
    /\ steps' = steps + 1
    /\ UNCHANGED <<table, next_index, scope, final, issued>>

NextRange == EvaluateRange

SpecRange == InitRange /\ [][NextRange]_vars

\* C12: for start <= end the range literal [start:end] is start, start+1,
\* ..., end: it begins with start, goes up in steps of exactly 1, ends with
\* end and holds nothing above end; [a:a] is [a]; for end < start the
\* evaluation fails with FlippedRange and yields no vector.
C12_RangeLiteral ==
    obs.kind = "ranged" =>
        /\ obs.start <= obs.end =>
              /\ obs.outcome = NoFail
              /\ obs.items # <<>>
              /\ obs.items[1] = obs.start
              /\ \A i \in 1..(Len(obs.items) - 1) :
                    obs.items[i + 1] = obs.items[i] + Denominator
              /\ obs.items[Len(obs.items)] = obs.end
              /\ \A i \in DOMAIN obs.items : obs.items[i] <= obs.end
        /\ obs.start = obs.end => obs.items = <<obs.start>>
        /\ obs.end < obs.start => obs.outcome = "FlippedRange" /\ obs.items = <<>>

\* the names a top-level statement finds taken
TakenNames(frame) ==
    BuiltinModules \cup BuiltinOperators \cup DOMAIN frame.bindings \cup
    DOMAIN frame.operators

DuplicateNameErrors == {"DuplicateName", "DuplicateBinding"}

\* C13: a binding or an operator definition whose name is already taken,
\* by a built-in module or operator or by a binding or operator of the
\* frame, fails with the duplicate-name error and leaves the frame as it
\* was.
C13_NoRedefinition ==
    (/\ obs.kind = "statement"
     /\ obs.node.kind \in {"Binding", "OperatorDefinition"}
     /\ obs.node.name \in TakenNames(obs.scope_before))
        => fail \in DuplicateNameErrors /\ scope = obs.scope_before

(***************************************************************************)
(* Object equality (impl PartialEq for Object) on pairs of objects.        *)
(***************************************************************************)
MaxVecLen == 2

\* a comparison of the two representations
f64_eq_bitwise(l, r) == l = r

\* f64 `==`: NaN is equal to nothing, itself included
f64_eq(l, r) == "nan" \notin DOMAIN l /\ "nan" \notin DOMAIN r /\ l = r

\* impl PartialEq for Object
RECURSIVE eq(_, _)
eq(l, r) ==
    IF l.type = "Number" /\ r.type = "Number" THEN f64_eq(l, r)
    ELSE IF l.type = "Boolean" /\ r.type = "Boolean" THEN l.value = r.value
    ELSE IF l.type = "Vector" /\ r.type = "Vector"
    THEN /\ Len(l.items) = Len(r.items)
         /\ \A i \in DOMAIN l.items : eq(l.items[i], r.items[i])
    ELSE IF l.type = "Null" /\ r.type = "Null" THEN TRUE
    ELSE FALSE

ScalarObjects ==
    { Null, Number(1), Number(2), NotANumber, Boolean(TRUE), ManifoldObject(1),
      CrossSectionObject(1) }

FlatVectors == { Vector(items) : items \in UNION { [1..n -> ScalarObjects] : n \in 0..MaxVecLen } }

NestedVectors ==
    { Vector(<<v>>) : v \in { w \in FlatVectors : Len(w.items) <= 1 } }

EqObjects == ScalarObjects \cup FlatVectors \cup NestedVectors

InitEq ==
    /\ Unstarted
    /\ \E l \in EqObjects, r \in EqObjects : obs = [kind |-> "pair", left |-> l, right |-> r]

\* `left == right` and `right == left`
Compare ==
    /\ obs.kind = "pair"
    /\ obs' = [kind |-> "compared", left |-> obs.left, right |-> obs.right,
               result |-> eq(obs.left, obs.right), reverse |-> eq(obs.right, obs.left)]
    /\ steps' = steps + 1
    /\ UNCHANGED <<table, next_index, scope, phase, fail, final, issued>>

NextEq == Compare

SpecEq == InitEq /\ [][NextEq]_vars

RECURSIVE HoldsHandle(_)
HoldsHandle(o) ==
    \/ o.type \in {"Manifold", "CrossSection"}
    \/ o.type = "Vector" /\ \E i \in DOMAIN o.items : HoldsHandle(o.items[i])

RECURSIVE HoldsNaN(_)
HoldsNaN(o) ==
    \/ o.type = "Number" /\ "nan" \in DOMAIN o
    \/ o.type = "Vector" /\ \E i \in DOMAIN o.items : HoldsNaN(o.items[i])

\* C20 as stated: equality is structural on values without a geometry
\* handle (so reflexive there) and symmetric, false between values of
\* different kinds, and false whenever a geometry handle is compared.
C20_Equality ==
    obs.kind = "compared" =>
        /\ obs.left.type # obs.right.type => ~obs.result
        /\ (HoldsHandle(obs.left) \/ HoldsHandle(obs.right)) => ~obs.result
        /\ (~HoldsHandle(obs.left) /\ ~HoldsHandle(obs.right))
              => /\ obs.result = (obs.left = obs.right)
                 /\ obs.result = obs.reverse

\* C20 with the NaN number set apart: equality is false whenever a NaN is
\* compared, as for a geometry handle, and structural, reflexive and
\* symmetric on the values that hold neither.
C20_EqualityOfComparableValues ==
    obs.kind = "compared" =>
        /\ obs.left.type # obs.right.type => ~obs.result
        /\ (HoldsHandle(obs.left) \/ HoldsHandle(obs.right)) => ~obs.result
        /\ (HoldsNaN(obs.left) \/ HoldsNaN(obs.right)) => ~obs.result
        /\ (/\ ~HoldsHandle(obs.left) /\ ~HoldsHandle(obs.right)
            /\ ~HoldsNaN(obs.left) /\ ~HoldsNaN(obs.right))
              => /\ obs.result = (obs.left = obs.right)
                 /\ obs.result = obs.reverse

\* two equal vectors of numbers, and two vectors with one handle at the
\* same position, have been compared
C20_Witness ==
    /\ obs.kind = "compared"
    /\ obs.left = Vector(<<Number(1), ManifoldObject(1)>>)
    /\ obs.right = obs.left
    /\ ~obs.result

(***************************************************************************)
(* The tokenizer (frontend/src/tokenize.rs).  A source is a sequence of    *)
(* characters; a character is a string, and EAcute and Euro stand for a    *)
(* letter of two bytes and a symbol of three bytes in UTF-8.  A span is    *)
(* (start, length) as InputSourceSpan holds it.                            *)
(***************************************************************************)
EAcute == "LATIN SMALL LETTER E WITH ACUTE"
Euro == "EURO SIGN"

\* char::len_utf8
len_utf8(c) == IF c = EAcute THEN 2 ELSE IF c = Euro THEN 3 ELSE 1

is_digit(c) == c \in {"0", "1", "2", "3", "4", "5", "6", "7", "8", "9"}
is_alphabetic(c) ==
    c \in {"a", "b", "c", "d", "e", "f", "g", "h", "i", "j", "k", "l", "m", "n", "o", "p",
           "q", "r", "s", "t", "u", "v", "w", "x", "y", "z", EAcute}
is_alphanumeric(c) == is_alphabetic(c) \/ is_digit(c)
is_whitespace(c) == c \in {" ", "\n", "\t"}

\* String::len of a buffer: its length in bytes
RECURSIVE byte_len(_)
byte_len(buffer) ==
    IF buffer = <<>> THEN 0 ELSE len_utf8(Head(buffer)) + byte_len(Tail(buffer))

\* the String a buffer of characters holds
RECURSIVE text_of(_)
text_of(buffer) == IF buffer = <<>> THEN "" ELSE Head(buffer) \o text_of(Tail(buffer))

\* InputSource::span
span(start, length) == [start |-> start, length |-> length]

\* Token::new; lexeme is the buffer the token was read into
Token(kind, lexeme, at) == [kind |-> kind, text |-> text_of(lexeme), lexeme |-> lexeme, span |-> at]

\* lookup_keyword
lookup_keyword(name) ==
    IF name = "it" THEN "KwIt" ELSE IF name = "operator" THEN "KwOperator" ELSE "Identifier"

\* the kind of a one-character token, "" when the character starts none
punctuation(c) ==
    CASE c = "(" -> "LParen" [] c = ")" -> "RParen" [] c = "{" -> "LBrace"
      [] c = "}" -> "RBrace" [] c = "[" -> "LBracket" [] c = "]" -> "RBracket"
      [] c = "," -> "Comma" [] c = ";" -> "Semicolon" [] c = "=" -> "Equals"
      [] c = "." -> "Dot" [] c = "+" -> "Plus" [] c = "-" -> "Minus"
      [] c = "/" -> "ForwardSlash" [] c = "*" -> "Star" [] OTHER -> ""

\* the inner loop of a number: digits, and one decimal point
RECURSIVE scan_number(_, _, _, _)
scan_number(chars, j, had_decimal_point, buffer) ==
    IF j > Len(chars) THEN [next |-> j, buffer |-> buffer]
    ELSE IF is_digit(chars[j])
    THEN scan_number(chars, j + 1, had_decimal_point, Append(buffer, chars[j]))
    ELSE IF ~had_decimal_point /\ chars[j] = "."
    THEN scan_number(chars, j + 1, TRUE, Append(buffer, "."))
    ELSE [next |-> j, buffer |-> buffer]

\* the inner loop of an identifier
RECURSIVE scan_identifier(_, _, _)
scan_identifier(chars, j, buffer) ==
    IF j > Len(chars) THEN [next |-> j, buffer |-> buffer]
    ELSE IF is_alphanumeric(chars[j]) \/ chars[j] = "_"
    THEN scan_identifier(chars, j + 1, Append(buffer, chars[j]))
    ELSE [next |-> j, buffer |-> buffer]

\* the loop of a line comment: characters are taken up to and with the newline
RECURSIVE skip_comment(_, _)
skip_comment(chars, j) ==
    IF j > Len(chars) THEN j
    ELSE IF chars[j] = "\n" THEN j + 1
    ELSE skip_comment(chars, j + 1)

\* the `while let Some((start_index, char)) = chars.next()` loop of tokenize;
\* chars[i] is the character of index i - 1 in chars().enumerate()
RECURSIVE tokenize_loop(_, _, _, _)
tokenize_loop(chars, i, tokens, errors) ==
    IF i > Len(chars) THEN [tokens |-> tokens, errors |-> errors]
    ELSE IF is_digit(chars[i])
    THEN With(scan_number(chars, i + 1, FALSE, <<chars[i]>>), LAMBDA n :
           tokenize_loop(chars, n.next,
               Append(tokens, Token("Number", n.buffer, span(i - 1, byte_len(n.buffer)))),
               errors))
    ELSE IF is_alphabetic(chars[i]) \/ chars[i] = "_"
    THEN With(scan_identifier(chars, i + 1, <<chars[i]>>), LAMBDA n :
           tokenize_loop(chars, n.next,
               Append(tokens, Token(lookup_keyword(text_of(n.buffer)), n.buffer,
                                    span(i - 1, byte_len(n.buffer)))),
               errors))
    ELSE IF chars[i] = "/" /\ i < Len(chars) /\ chars[i + 1] = "/"
    THEN tokenize_loop(chars, skip_comment(chars, i + 1), tokens, errors)
    ELSE IF punctuation(chars[i]) # ""
    THEN tokenize_loop(chars, i + 1,
             Append(tokens, Token(punctuation(chars[i]), <<chars[i]>>, span(i - 1, 1))),
             errors)
    ELSE IF is_whitespace(chars[i]) THEN tokenize_loop(chars, i + 1, tokens, errors)
    ELSE tokenize_loop(chars, i + 1, tokens,
             Append(errors, [kind |-> "UnexpectedChar", char |-> chars[i],
                             span |-> span(i - 1, 1)]))

\* tokenize
tokenize(chars) == tokenize_loop(chars, 1, <<>>, <<>>)

\* the content of a source as bytes: byte k of character c is <<c, k>>
RECURSIVE bytes_of(_)
bytes_of(chars) ==
    IF chars = <<>> THEN <<>>
    ELSE [k \in 1..len_utf8(Head(chars)) |-> <<Head(chars), k>>] \o bytes_of(Tail(chars))

(***************************************************************************)
(* The tokenizer on every source of at most MaxChars characters.           *)
(***************************************************************************)
MaxChars == 4

SourceChars == {"a", "1", ".", "/", "\n", " ", "(", "#", EAcute}

Sources == UNION { [1..n -> SourceChars] : n \in 0..MaxChars }

InitLex ==
    /\ Unstarted
    /\ \E content \in Sources : obs = [kind |-> "source", content |-> content]

Tokenize ==
    /\ obs.kind = "source"
    /\ With(tokenize(obs.content), LAMBDA r :
          obs' = [kind |-> "tokens", content |-> obs.content, tokens |-> r.tokens,
                  errors |-> r.errors])
    /\ steps' = steps + 1
    /\ UNCHANGED <<table, next_index, scope, phase, fail, final, issued>>

NextLex == Tokenize

SpecLex == InitLex /\ [][NextLex]_vars

\* the bytes of the source that a span covers
SourceAt(content, at) ==
    SubSeq(bytes_of(content), at.start + 1, at.start + at.length)

\* C18: for every token of tokenize, the source text at byte offset
\* span.start of byte length span.length is the lexeme of the token, also
\* when characters of several bytes come before the token.
C18_SpanIsLexeme ==
    obs.kind = "tokens" =>
        \A i \in DOMAIN obs.tokens :
            /\ obs.tokens[i].span.start + obs.tokens[i].span.length
                  <= Len(bytes_of(obs.content))
            /\ SourceAt(obs.content, obs.tokens[i].span) = bytes_of(obs.tokens[i].lexeme)

(***************************************************************************)
(* The parser (frontend/src/parse.rs).  The parser state p holds the       *)
(* tokens not yet taken, the errors pushed so far and the length of the    *)
(* source (for eof_span).  A parse function returns the state it leaves    *)
(* and `some`, FALSE for None; a node carries its span.                    *)
(***************************************************************************)
\* Parser::new
new_parser(tokens, source_len) ==
    [tokens |-> tokens, errors |-> <<>>, eof |-> source_len, iterations |-> {}]

\* history: an iteration of a loop of the parser that started with the
\* tokens of p and goes round again with the tokens of q
iterated(q, loop, p) ==
    [q EXCEPT !.iterations = @ \cup
        {[loop |-> loop, before |-> Len(p.tokens), after |-> Len(q.tokens)]}]

\* self.tokens.peek().is_some_and(|token| token.kind == kind)
peek_is(p, kind) == p.tokens # <<>> /\ Head(p.tokens).kind = kind

\* self.tokens.next(), on a parser that has a token
advance(p) == [p EXCEPT !.tokens = Tail(@)]

\* self.errors.push(ParseError::new(kind, at)); token is the kind of an
\* unexpected token
push_error(p, kind, token, at) ==
    [p EXCEPT !.errors = Append(@, [kind |-> kind, token |-> token, span |-> at])]

\* InputSource::eof_span
eof_span(p) == span(p.eof, 0)

\* InputSourceSpan::end
end(at) == at.start + at.length - 1

\* InputSourceSpan::union_with: the span from the least start to the greatest end
union_with(at, spans) ==
    With(SetMin({ s.start : s \in spans \cup {at} }), LAMBDA start :
      span(start, SetMax({ end(s) : s \in spans \cup {at} }) - start + 1))

\* Node::new
Node(kind, at) == [f \in DOMAIN kind \cup {"span"} |-> IF f = "span" THEN at ELSE kind[f]]

BooleanLiteral(b) == [kind |-> "BooleanLiteral", value |-> b]
BinaryOperation(left, right, op) ==
    [kind |-> "BinaryOperation", left |-> left, right |-> right, op |-> op]
UnaryNegate(value) == [kind |-> "UnaryNegate", value |-> value]
ModuleDefinition(name, parameters, body) ==
    [kind |-> "ModuleDefinition", name |-> name, parameters |-> parameters, body |-> body]
IfConditional(condition, true_body, false_body) ==
    [kind |-> "IfConditional", condition |-> condition, true_body |-> true_body,
     false_body |-> false_body]
Arguments(positional, named) == [positional |-> positional, named |-> named]
Parameters(required, optional) == [required |-> required, optional |-> optional]

NoNode == [kind |-> "None", span |-> span(0, 0)]
NeedsSemicolon == "NeedsSemicolon"
Braced == "Braced"

\* None, and Some((node, terminator))
None(p) == [p |-> p, some |-> FALSE, node |-> NoNode, terminator |-> NeedsSemicolon]
Some(p, node, terminator) == [p |-> p, some |-> TRUE, node |-> node, terminator |-> terminator]

\* Parser::expect: some is FALSE for None (no token), matched tells
\* Some(Some(token)) from Some(None)
expect(p, kind) ==
    IF p.tokens = <<>>
    THEN [p |-> push_error(p, "UnexpectedEnd", "", eof_span(p)), some |-> FALSE,
          matched |-> FALSE, span |-> span(0, 0)]
    ELSE IF Head(p.tokens).kind = kind
    THEN [p |-> advance(p), some |-> TRUE, matched |-> TRUE, span |-> Head(p.tokens).span]
    ELSE [p |-> push_error(advance(p), "UnexpectedToken", Head(p.tokens).kind,
                           Head(p.tokens).span),
          some |-> TRUE, matched |-> FALSE, span |-> span(0, 0)]

\* Parser::expect_identifier
expect_identifier(p) ==
    IF p.tokens = <<>>
    THEN [p |-> push_error(p, "UnexpectedEnd", "", eof_span(p)), some |-> FALSE,
          name |-> "", span |-> span(0, 0)]
    ELSE IF Head(p.tokens).kind = "Identifier"
    THEN [p |-> advance(p), some |-> TRUE, name |-> Head(p.tokens).text,
          span |-> Head(p.tokens).span]
    ELSE [p |-> push_error(advance(p), "UnexpectedToken", Head(p.tokens).kind,
                           Head(p.tokens).span),
          some |-> FALSE, name |-> "", span |-> span(0, 0)]

digit_value(c) ==
    CASE c = "0" -> 0 [] c = "1" -> 1 [] c = "2" -> 2 [] c = "3" -> 3 [] c = "4" -> 4
      [] c = "5" -> 5 [] c = "6" -> 6 [] c = "7" -> 7 [] c = "8" -> 8 [] c = "9" -> 9

RECURSIVE whole_part(_, _)
whole_part(lexeme, value) ==
    IF lexeme = <<>> \/ Head(lexeme) = "." THEN value
    ELSE whole_part(Tail(lexeme), value * 10 + digit_value(Head(lexeme)))

\* num.parse::<f64>(): digits with at most one decimal point always parse;
\* the model's numbers are whole, so the digits after the point are dropped
parse_f64(lexeme) == [ok |-> lexeme # <<>>, value |-> whole_part(lexeme, 0)]

\* the BinaryOperator a token stands for at a level of the expression
\* grammar (1 comparison, 2 add/sub, 3 mul/div), "" for none
binary_operator(level, kind) ==
    IF level = 1
    THEN CASE kind = "DoubleEquals" -> "Equals" [] kind = "LAngle" -> "LessThan"
           [] kind = "LAngleEquals" -> "LessThanOrEquals" [] kind = "RAngle" -> "GreaterThan"
           [] kind = "RAngleEquals" -> "GreaterThanOrEquals" [] OTHER -> ""
    ELSE IF level = 2
    THEN CASE kind = "Plus" -> "Add" [] kind = "Minus" -> "Subtract" [] OTHER -> ""
    ELSE CASE kind = "Star" -> "Multiply" [] kind = "ForwardSlash" -> "Divide" [] OTHER -> ""

RECURSIVE parse_statement(_)
RECURSIVE parse_comparison_expression(_)
RECURSIVE parse_add_sub_expression(_)
RECURSIVE parse_mul_div_expression(_)
RECURSIVE parse_bottom_expression(_)
RECURSIVE parse_definition(_)
RECURSIVE parse_argument_list(_)
RECURSIVE parse_any_field_access_suffixes(_, _)
RECURSIVE parse_bracketed_comma_separated_list(_, _, _)
RECURSIVE parse_braced_statement_list(_)
RECURSIVE parse_if_statement(_)
RECURSIVE binary_loop(_, _, _, _)

\* Parser::parse_expression
parse_expression(p) == parse_comparison_expression(p)

\* an operand parser without levels: every operator takes the next bottom
\* expression, whatever its precedence
parse_operand_flat(level, p) == parse_bottom_expression(p)

\* the operand of a binary operator of a level
parse_operand(level, p) ==
    IF level = 1 THEN parse_add_sub_expression(p)
    ELSE IF level = 2 THEN parse_mul_div_expression(p)
    ELSE parse_bottom_expression(p)

\* the `while` loop of parse_comparison_expression, parse_add_sub_expression
\* and parse_mul_div_expression
binary_loop(level, p, left, terminator) ==
    IF p.tokens # <<>> /\ binary_operator(level, Head(p.tokens).kind) # ""
    THEN With(parse_operand(level, advance(p)), LAMBDA right :
           IF ~right.some THEN None(right.p)
           ELSE binary_loop(level, right.p,
                    Node(BinaryOperation(left, right.node,
                                         binary_operator(level, Head(p.tokens).kind)),
                         union_with(left.span, {right.node.span})),
                    right.terminator))
    ELSE Some(p, left, terminator)

\* Parser::parse_comparison_expression
parse_comparison_expression(p) ==
    With(parse_add_sub_expression(p), LAMBDA left :
      IF ~left.some THEN None(left.p)
      ELSE binary_loop(1, left.p, left.node, left.terminator))

\* Parser::parse_add_sub_expression
parse_add_sub_expression(p) ==
    With(parse_mul_div_expression(p), LAMBDA left :
      IF ~left.some THEN None(left.p)
      ELSE binary_loop(2, left.p, left.node, left.terminator))

\* Parser::parse_mul_div_expression
parse_mul_div_expression(p) ==
    With(parse_bottom_expression(p), LAMBDA left :
      IF ~left.some THEN None(left.p)
      ELSE binary_loop(3, left.p, left.node, left.terminator))

\* the results of the parse functions that return no (node, terminator)
NoList(p) == [p |-> p, some |-> FALSE, items |-> <<>>, span |-> span(0, 0)]
NoArguments(p) ==
    [p |-> p, some |-> FALSE, arguments |-> Arguments(<<>>, <<>>), span |-> span(0, 0)]
NoDefinition(p) ==
    [p |-> p, some |-> FALSE, name |-> "", parameters |-> Parameters(<<>>, <<>>),
     body |-> <<>>, span |-> span(0, 0)]
NoStatements(p) == [p |-> p, some |-> FALSE, nodes |-> <<>>]

\* the indices of the items that are plain although an item before them is
\* marked (a positional argument after a named one, a required parameter
\* after an optional one)
LateItems(items, marked(_)) ==
    SelectSeq([i \in DOMAIN items |-> i],
              LAMBDA i : ~marked(items[i]) /\ \E j \in 1..(i - 1) : marked(items[j]))

\* the parse_fn closures given to parse_bracketed_comma_separated_list: an
\* expression (line 737), an argument (633-646), a parameter (590-600)
parse_item(mode, p) ==
    IF mode = "expression"
    THEN With(parse_expression(p), LAMBDA e : [p |-> e.p, some |-> e.some, item |-> e.node])
    ELSE IF mode = "argument"
    THEN With(parse_expression(p), LAMBDA e :
           IF ~e.some THEN [p |-> e.p, some |-> FALSE, item |-> NoNode]
           ELSE IF e.node.kind = "Identifier" /\ peek_is(e.p, "Equals")
           THEN With(parse_expression(advance(e.p)), LAMBDA v :
                  [p |-> v.p, some |-> v.some,
                   item |-> [value |-> v.node, marked |-> TRUE, name |-> e.node.id]])
           ELSE [p |-> e.p, some |-> TRUE,
                 item |-> [value |-> e.node, marked |-> FALSE, name |-> ""]])
    ELSE With(expect_identifier(p), LAMBDA n :
           IF ~n.some THEN [p |-> n.p, some |-> FALSE, item |-> NoNode]
           ELSE IF peek_is(n.p, "Equals")
           THEN With(parse_expression(advance(n.p)), LAMBDA d :
                  [p |-> d.p, some |-> d.some,
                   item |-> [name |-> n.name, marked |-> TRUE, value |-> d.node]])
           ELSE [p |-> n.p, some |-> TRUE,
                 item |-> [name |-> n.name, marked |-> FALSE, value |-> NoNode]])

\* the `loop` of parse_bracketed_comma_separated_list
RECURSIVE list_loop(_, _, _, _, _)
list_loop(p, end_kind, mode, items, start_span) ==
    With(parse_item(mode, p), LAMBDA item :
      With(IF item.some THEN Append(items, item.item) ELSE items, LAMBDA pushed :
        IF item.p.tokens = <<>>
        THEN [p |-> push_error(item.p, "UnexpectedEnd", "", eof_span(item.p)), some |-> TRUE,
              items |-> pushed, span |-> start_span]
        ELSE With(Head(item.p.tokens), LAMBDA separator :
               With(advance(item.p), LAMBDA q :
                 IF separator.kind = "Comma"
                 THEN IF peek_is(q, end_kind)
                      THEN [p |-> advance(q), some |-> TRUE, items |-> pushed,
                            span |-> union_with(start_span, {Head(q.tokens).span})]
                      ELSE list_loop(iterated(q, "list", p), end_kind, mode, pushed,
                                     start_span)
                 ELSE IF separator.kind = end_kind
                 THEN [p |-> q, some |-> TRUE, items |-> pushed,
                       span |-> union_with(start_span, {separator.span})]
                 ELSE list_loop(iterated(push_error(q, "UnexpectedToken", separator.kind,
                                                    separator.span), "list", p),
                                end_kind, mode, pushed, start_span)))))

\* Parser::parse_bracketed_comma_separated_list
parse_bracketed_comma_separated_list(p, end_kind, mode) ==
    IF p.tokens = <<>> THEN NoList(p)
    ELSE IF peek_is(p, "RParen")
    THEN [p |-> advance(p), some |-> TRUE, items |-> <<>>,
          span |-> union_with(Head(p.tokens).span, {Head(p.tokens).span})]
    ELSE list_loop(p, end_kind, mode, <<>>, Head(p.tokens).span)

\* Parser::parse_argument_list
parse_argument_list(p) ==
    With(expect(p, "LParen"), LAMBDA open :
      IF ~open.some THEN NoArguments(open.p)
      ELSE With(parse_bracketed_comma_separated_list(open.p, "RParen", "argument"),
                LAMBDA list :
             IF ~list.some THEN NoArguments(list.p)
             ELSE [p |-> [list.p EXCEPT !.errors = @ \o
                            [k \in DOMAIN LateItems(list.items, LAMBDA a : a.marked) |->
                               [kind |-> "PositionalArgumentAfterNamedArgument",
                                token |-> "", span |-> list.span]]],
                   some |-> TRUE,
                   arguments |->
                     With(SelectSeq(list.items, LAMBDA a : ~a.marked), LAMBDA positional :
                       With(SelectSeq(list.items, LAMBDA a : a.marked), LAMBDA named :
                         Arguments([i \in DOMAIN positional |-> positional[i].value],
                                   [i \in DOMAIN named |->
                                      <<named[i].name, named[i].value>>]))),
                   span |-> list.span]))

\* Parser::parse_any_field_access_suffixes
parse_any_field_access_suffixes(p, value) ==
    IF ~peek_is(p, "Dot") THEN [p |-> p, node |-> value]
    ELSE With(expect_identifier(advance(p)), LAMBDA field :
           IF ~field.some THEN [p |-> field.p, node |-> value]
           ELSE parse_any_field_access_suffixes(field.p,
                    Node(FieldAccess(value, field.name),
                         union_with(Head(p.tokens).span, {field.span}))))

\* the spans of a list of nodes
SpansOf(nodes) == { nodes[i].span : i \in DOMAIN nodes }

\* Parser::parse_definition
parse_definition(p) ==
    With(expect_identifier(advance(p)), LAMBDA name :
      IF ~name.some THEN NoDefinition(name.p)
      ELSE With(expect(name.p, "LParen"), LAMBDA open :
        IF ~open.some THEN NoDefinition(open.p)
        ELSE With(parse_bracketed_comma_separated_list(open.p, "RParen", "parameter"),
                  LAMBDA list :
          IF ~list.some THEN NoDefinition(list.p)
          ELSE With([list.p EXCEPT !.errors = @ \o
                       [k \in DOMAIN LateItems(list.items, LAMBDA a : a.marked) |->
                          [kind |-> "RequiredParameterAfterOptionalParameter",
                           token |-> list.items[LateItems(list.items,
                                                          LAMBDA a : a.marked)[k]].name,
                           span |-> Head(p.tokens).span]]],
                    LAMBDA q :
            With(parse_braced_statement_list(q), LAMBDA body :
              IF ~body.some THEN NoDefinition(body.p)
              ELSE [p |-> body.p, some |-> TRUE, name |-> name.name,
                    parameters |->
                      With(SelectSeq(list.items, LAMBDA a : ~a.marked), LAMBDA required :
                        With(SelectSeq(list.items, LAMBDA a : a.marked), LAMBDA optional :
                          Parameters([i \in DOMAIN required |-> required[i].name],
                                     [i \in DOMAIN optional |->
                                        <<optional[i].name, optional[i].value>>]))),
                    body |-> body.nodes,
                    span |-> union_with(Head(p.tokens).span, SpansOf(body.nodes))])))))

\* an identifier expression that never looks for operator children
parse_identifier_call_only(p, token) ==
    IF ~peek_is(p, "LParen")
    THEN With(parse_any_field_access_suffixes(p, Node(Identifier(token.text), token.span)),
              LAMBDA suffixed : Some(suffixed.p, suffixed.node, NeedsSemicolon))
    ELSE With(parse_argument_list(p), LAMBDA list :
      IF ~list.some THEN None(list.p)
      ELSE With(parse_any_field_access_suffixes(list.p,
                    Node(Call(token.text, list.arguments),
                         union_with(token.span, {list.span}))),
                LAMBDA suffixed : Some(suffixed.p, suffixed.node, NeedsSemicolon)))

\* parse_bottom_expression, TokenKind::Identifier (lines 415-466)
parse_identifier_expression(p, token) ==
    IF ~peek_is(p, "LParen")
    THEN With(parse_any_field_access_suffixes(p, Node(Identifier(token.text), token.span)),
              LAMBDA suffixed : Some(suffixed.p, suffixed.node, NeedsSemicolon))
    ELSE With(parse_argument_list(p), LAMBDA list :
      IF ~list.some THEN None(list.p)
      ELSE With(union_with(token.span, {list.span}), LAMBDA call_span :
        IF peek_is(list.p, "Identifier")
        THEN With(parse_expression(list.p), LAMBDA child :
               IF ~child.some THEN None(child.p)
               ELSE Some(child.p,
                         Node(OperatorApplication(token.text, list.arguments, <<child.node>>),
                              call_span),
                         child.terminator))
        ELSE IF peek_is(list.p, "LBrace")
        THEN With(parse_braced_statement_list(list.p), LAMBDA children :
               IF ~children.some THEN None(children.p)
               ELSE Some(children.p,
                         Node(OperatorApplication(token.text, list.arguments, children.nodes),
                              call_span),
                         Braced))
        ELSE With(parse_any_field_access_suffixes(list.p,
                      Node(Call(token.text, list.arguments), call_span)),
                  LAMBDA suffixed : Some(suffixed.p, suffixed.node, NeedsSemicolon))))

\* parse_bottom_expression, TokenKind::LBracket (lines 477-528)
parse_vector_expression(p, token) ==
    With(parse_expression(p), LAMBDA first :
      IF ~first.some THEN None(first.p)
      ELSE IF first.p.tokens = <<>>
      THEN None(push_error(first.p, "UnexpectedEnd", "", eof_span(first.p)))
      ELSE IF peek_is(first.p, "RBracket")
      THEN Some(first.p,
                Node(VectorLiteral(<<first.node>>),
                     union_with(token.span, {Head(first.p.tokens).span})),
                NeedsSemicolon)
      ELSE IF peek_is(first.p, "Comma")
      THEN With(parse_bracketed_comma_separated_list(advance(first.p), "RBracket",
                                                     "expression"), LAMBDA list :
             IF ~list.some THEN None(list.p)
             ELSE Some(list.p,
                       Node(VectorLiteral(<<first.node>> \o list.items),
                            union_with(token.span, {list.span})),
                       NeedsSemicolon))
      ELSE IF peek_is(first.p, "Colon")
      THEN With(parse_expression(advance(first.p)), LAMBDA end_item :
             IF ~end_item.some THEN None(end_item.p)
             ELSE With(expect(end_item.p, "RBracket"), LAMBDA close :
                    IF ~close.some THEN None(close.p)
                    ELSE Some(close.p,
                              Node(VectorRangeLiteral(first.node, end_item.node),
                                   union_with(token.span, {end_item.node.span})),
                              NeedsSemicolon)))
      ELSE None(push_error(first.p, "UnexpectedToken", token.kind,
                           Head(first.p.tokens).span)))

\* Parser::parse_bottom_expression
parse_bottom_expression(p) ==
    IF p.tokens = <<>> THEN None(p)
    ELSE With(Head(p.tokens), LAMBDA token :
      With(advance(p), LAMBDA q :
        CASE token.kind = "Identifier" -> parse_identifier_expression(q, token)
          [] token.kind = "Number" ->
               IF parse_f64(token.lexeme).ok
               THEN Some(q, Node(NumberLiteral(parse_f64(token.lexeme).value), token.span),
                         NeedsSemicolon)
               ELSE Some(push_error(q, "InvalidNumber", "", token.span),
                         Node(NumberLiteral(0), token.span), NeedsSemicolon)
          [] token.kind = "LBracket" -> parse_vector_expression(q, token)
          [] token.kind = "KwIt" ->
               With(parse_any_field_access_suffixes(q, Node(ItReference, token.span)),
                    LAMBDA suffixed : Some(suffixed.p, suffixed.node, NeedsSemicolon))
          [] token.kind = "Minus" ->
               With(parse_bottom_expression(q), LAMBDA value :
                 IF ~value.some THEN None(value.p)
                 ELSE Some(value.p,
                           Node(UnaryNegate(value.node),
                                union_with(token.span, {value.node.span})),
                           value.terminator))
          [] token.kind = "LParen" ->
               With(parse_expression(q), LAMBDA inner :
                 IF ~inner.some THEN None(inner.p)
                 ELSE With(expect(inner.p, "RParen"), LAMBDA close :
                        IF ~close.some THEN None(close.p)
                        ELSE Some(close.p, inner.node, NeedsSemicolon)))
          [] token.kind = "KwTrue" ->
               Some(q, Node(BooleanLiteral(TRUE), token.span), NeedsSemicolon)
          [] token.kind = "KwFalse" ->
               Some(q, Node(BooleanLiteral(FALSE), token.span), NeedsSemicolon)
          [] OTHER -> None(push_error(q, "UnexpectedToken", token.kind, token.span))))

\* the `loop` of parse_braced_statement_list
RECURSIVE braced_loop(_, _)
braced_loop(p, stmts) ==
    IF peek_is(p, "RBrace") THEN [p |-> advance(p), some |-> TRUE, nodes |-> stmts]
    ELSE IF p.tokens = <<>>
    THEN [p |-> push_error(p, "UnexpectedEnd", "", eof_span(p)), some |-> TRUE,
          nodes |-> stmts]
    ELSE With(parse_statement(p), LAMBDA stmt :
           braced_loop(iterated(stmt.p, "braced", p),
                       IF stmt.some THEN Append(stmts, stmt.node) ELSE stmts))

\* Parser::parse_braced_statement_list
parse_braced_statement_list(p) ==
    With(expect(p, "LBrace"), LAMBDA open :
      IF ~open.some THEN NoStatements(open.p) ELSE braced_loop(open.p, <<>>))

\* the `else` part of parse_if_statement: taken is FALSE for a None that
\* ends parse_if_statement, body is <<>> with has_body FALSE for no false_body
parse_else(p) ==
    IF ~peek_is(p, "KwElse") THEN [p |-> p, some |-> TRUE, has_body |-> FALSE, body |-> <<>>]
    ELSE With(advance(p), LAMBDA q :
      IF peek_is(q, "KwIf")
      THEN With(parse_if_statement(q), LAMBDA nested :
             [p |-> nested.p, some |-> nested.some, has_body |-> TRUE,
              body |-> <<nested.node>>])
      ELSE IF peek_is(q, "LBrace")
      THEN With(parse_braced_statement_list(q), LAMBDA block :
             [p |-> block.p, some |-> block.some, has_body |-> TRUE, body |-> block.nodes])
      ELSE IF q.tokens = <<>>
      THEN [p |-> push_error(q, "UnexpectedEnd", "", eof_span(q)), some |-> TRUE,
            has_body |-> FALSE, body |-> <<>>]
      ELSE [p |-> push_error(q, "UnexpectedToken", Head(q.tokens).kind, Head(q.tokens).span),
            some |-> TRUE, has_body |-> FALSE, body |-> <<>>])

\* Parser::parse_if_statement
parse_if_statement(p) ==
    With(expect(p, "KwIf"), LAMBDA start :
      IF ~start.some \/ ~start.matched THEN None(start.p)
      ELSE With(expect(start.p, "LParen"), LAMBDA open :
        IF ~open.some \/ ~open.matched THEN None(open.p)
        ELSE With(parse_expression(open.p), LAMBDA condition :
          IF ~condition.some THEN None(condition.p)
          ELSE With(expect(condition.p, "RParen"), LAMBDA close :
            IF ~close.some \/ ~close.matched THEN None(close.p)
            ELSE With(parse_braced_statement_list(close.p), LAMBDA true_body :
              IF ~true_body.some THEN None(true_body.p)
              ELSE With(parse_else(true_body.p), LAMBDA false_body :
                IF ~false_body.some THEN None(false_body.p)
                ELSE Some(false_body.p,
                          Node(IfConditional(condition.node, true_body.nodes,
                                             [some |-> false_body.has_body,
                                              nodes |-> false_body.body]),
                               union_with(start.span, {close.span})),
                          Braced)))))))

\* parse_statement, the `for` loop (lines 249-285); p is the parser after `for`
parse_for_loop(p, start_span) ==
    With(expect(p, "LParen"), LAMBDA open :
      IF ~open.some THEN None(open.p)
      ELSE IF open.p.tokens = <<>>
      THEN None(push_error(open.p, "UnexpectedEnd", "", eof_span(open.p)))
      ELSE With(Head(open.p.tokens), LAMBDA name :
        IF name.kind # "Identifier"
        THEN None(push_error(advance(open.p), "UnexpectedToken", name.kind, name.span))
        ELSE With(expect(advance(open.p), "Equals"), LAMBDA equals :
          IF ~equals.some THEN None(equals.p)
          ELSE With(parse_expression(equals.p), LAMBDA loop_source :
            IF ~loop_source.some THEN None(loop_source.p)
            ELSE With(expect(loop_source.p, "RParen"), LAMBDA close :
              IF ~close.some THEN None(close.p)
              ELSE With(parse_braced_statement_list(close.p), LAMBDA body :
                IF ~body.some THEN None(body.p)
                ELSE Some(body.p,
                          Node(ForLoop(name.text, loop_source.node, body.nodes),
                               union_with(start_span, SpansOf(body.nodes))),
                          Braced)))))))

\* a parse_statement that reports the token it sees and leaves it in place
parse_statement_in_place(p) ==
    None(push_error(p, "UnexpectedToken", Head(p.tokens).kind, Head(p.tokens).span))

\* parse_statement, lines 309-320: the terminator of an expression statement
parse_terminator(p, expr, terminator) ==
    IF terminator = NeedsSemicolon
    THEN With(expect(p, "Semicolon"), LAMBDA semicolon :
           IF ~semicolon.some THEN None(semicolon.p)
           ELSE Some(semicolon.p, expr, terminator))
    ELSE Some(IF peek_is(p, "Semicolon") THEN advance(p) ELSE p, expr, terminator)

\* Parser::parse_statement
parse_statement(p) ==
    IF peek_is(p, "KwOperator") \/ peek_is(p, "KwModule")
    THEN With(parse_definition(p), LAMBDA definition :
           IF ~definition.some THEN None(definition.p)
           ELSE Some(definition.p,
                     Node(IF peek_is(p, "KwOperator")
                          THEN OperatorDefinition(definition.name, definition.parameters,
                                                  definition.body)
                          ELSE ModuleDefinition(definition.name, definition.parameters,
                                                definition.body),
                          definition.span),
                     Braced))
    ELSE IF peek_is(p, "KwFor") THEN parse_for_loop(advance(p), Head(p.tokens).span)
    ELSE IF peek_is(p, "KwIf") THEN parse_if_statement(p)
    ELSE With(parse_expression(p), LAMBDA expr :
      IF ~expr.some THEN None(expr.p)
      ELSE IF expr.node.kind = "Identifier" /\ peek_is(expr.p, "Equals")
      THEN With(parse_expression(advance(expr.p)), LAMBDA value :
             IF ~value.some THEN None(value.p)
             ELSE parse_terminator(value.p,
                                   Node(Binding(expr.node.id, value.node),
                                        union_with(expr.node.span, {value.node.span})),
                                   value.terminator))
      ELSE parse_terminator(expr.p, expr.node, expr.terminator))

\* the `while` loop of parse_statements
RECURSIVE statements_loop(_, _)
statements_loop(p, stmts) ==
    IF p.tokens = <<>> THEN [p |-> p, nodes |-> stmts]
    ELSE With(parse_statement(p), LAMBDA stmt :
           statements_loop(stmt.p, IF stmt.some THEN Append(stmts, stmt.node) ELSE stmts))

\* Parser::parse_statements
parse_statements(p) == statements_loop(p, <<>>)

----------------------------------------------------------------------------
\* Token streams for the parser: each word is a token kind with its lexeme,
\* laid out in a source text with one space after every token.

Word(kind, lexeme) == [kind |-> kind, lexeme |-> lexeme]

RECURSIVE lay_out(_, _, _)
lay_out(words, at, tokens) ==
    IF words = <<>> THEN [tokens |-> tokens, source_len |-> at]
    ELSE lay_out(Tail(words), at + byte_len(Head(words).lexeme) + 1,
                 Append(tokens, Token(Head(words).kind, Head(words).lexeme,
                                      span(at, byte_len(Head(words).lexeme)))))

\* Parser::new(source, tokens) followed by parse_statements()
parse_words(words) ==
    With(lay_out(words, 0, <<>>), LAMBDA source :
      parse_statements(new_parser(source.tokens, source.source_len)))

----------------------------------------------------------------------------
\* SpecExpr: parse_expression applied to token streams of identifiers,
\* unary minus and the binary operators of the three levels.

MaxExprTokens == 5

ExprAlphabet ==
    { Word("Identifier", <<"a">>), Word("Identifier", <<"b">>), Word("Plus", <<"+">>),
      Word("Minus", <<"-">>), Word("Star", <<"*">>), Word("ForwardSlash", <<"/">>),
      Word("DoubleEquals", <<"=", "=">>), Word("LAngle", <<"<">>) }

ExprWords == UNION { [1..n -> ExprAlphabet] : n \in 1..MaxExprTokens }

InitExpr ==
    /\ Unstarted
    /\ \E words \in ExprWords : obs = [kind |-> "words", words |-> words]

ParseExpression ==
    /\ obs.kind = "words"
    /\ With(lay_out(obs.words, 0, <<>>), LAMBDA source :
         With(parse_expression(new_parser(source.tokens, source.source_len)), LAMBDA r :
           obs' = [kind |-> "expression", words |-> obs.words, some |-> r.some,
                   node |-> r.node, errors |-> r.p.errors,
                   consumed |-> Len(source.tokens) - Len(r.p.tokens)]))
    /\ steps' = steps + 1
    /\ UNCHANGED <<table, next_index, scope, phase, fail, final, issued>>

NextExpr == ParseExpression

SpecExpr == InitExpr /\ [][NextExpr]_vars

\* the level of the grammar a node comes from: 1 comparison, 2 add/sub,
\* 3 mul/div, 4 unary minus and the atoms
LevelOf(node) ==
    IF node.kind # "BinaryOperation" THEN 4
    ELSE IF node.op \in {"Add", "Subtract"} THEN 2
    ELSE IF node.op \in {"Multiply", "Divide"} THEN 3
    ELSE 1

\* every operand binds at least as tightly as its operator, the right operand
\* strictly tighter (left associativity), a negated value tightest of all
RECURSIVE RespectsPrecedence(_)
RespectsPrecedence(node) ==
    CASE node.kind = "BinaryOperation" ->
           /\ LevelOf(node.left) >= LevelOf(node)
           /\ LevelOf(node.right) > LevelOf(node)
           /\ RespectsPrecedence(node.left)
           /\ RespectsPrecedence(node.right)
      [] node.kind = "UnaryNegate" ->
           LevelOf(node.value) = 4 /\ RespectsPrecedence(node.value)
      [] OTHER -> TRUE

OperatorToken(op) ==
    CASE op = "Add" -> "+" [] op = "Subtract" -> "-" [] op = "Multiply" -> "*"
      [] op = "Divide" -> "/" [] op = "Equals" -> "==" [] op = "LessThan" -> "<"

\* the tokens of an expression tree, read from left to right
RECURSIVE InOrder(_)
InOrder(node) ==
    CASE node.kind = "BinaryOperation" ->
           InOrder(node.left) \o <<OperatorToken(node.op)>> \o InOrder(node.right)
      [] node.kind = "UnaryNegate" -> <<"-">> \o InOrder(node.value)
      [] node.kind = "Identifier" -> <<node.id>>

\* an expression tree written with a pair of brackets around every operation
RECURSIVE Bracketed(_)
Bracketed(node) ==
    CASE node.kind = "BinaryOperation" ->
           "(" \o Bracketed(node.left) \o " " \o OperatorToken(node.op) \o " "
               \o Bracketed(node.right) \o ")"
      [] node.kind = "UnaryNegate" -> "(-" \o Bracketed(node.value) \o ")"
      [] node.kind = "Identifier" -> node.id

Texts(words) == [i \in DOMAIN words |-> text_of(words[i].lexeme)]

WordsOf(texts) ==
    [i \in DOMAIN texts |->
        CHOOSE w \in ExprAlphabet : text_of(w.lexeme) = texts[i]]

IsBinaryOperator(word) == \E level \in 1..3 : binary_operator(level, word.kind) # ""

\* C15: an expression that parses is the tree of its tokens in which
\* multiplication and division bind tighter than addition and subtraction,
\* these tighter than the comparisons, unary minus tightest, and operators of
\* one level group to the left; it takes every operator that follows it;
\* a + b * c, a == b + c, -a * b and a - b - c parse as a + (b * c),
\* a == (b + c), (-a) * b and (a - b) - c.
C15_Precedence ==
    (obs.kind = "expression" /\ obs.some) =>
        /\ RespectsPrecedence(obs.node)
        /\ InOrder(obs.node) = SubSeq(Texts(obs.words), 1, obs.consumed)
        /\ obs.consumed < Len(obs.words) => ~IsBinaryOperator(obs.words[obs.consumed + 1])
        /\ obs.words = WordsOf(<<"a", "+", "b", "*", "a">>) =>
               Bracketed(obs.node) = "(a + (b * a))"
        /\ obs.words = WordsOf(<<"a", "==", "b", "+", "a">>) =>
               Bracketed(obs.node) = "(a == (b + a))"
        /\ obs.words = WordsOf(<<"-", "a", "*", "b">>) =>
               Bracketed(obs.node) = "((-a) * b)"
        /\ obs.words = WordsOf(<<"a", "-", "b", "-", "a">>) =>
               Bracketed(obs.node) = "((a - b) - a)"

\* a parsed expression with operators of all three levels
C15_Witness ==
    /\ obs.kind = "expression"
    /\ obs.some
    /\ obs.consumed = 5
    /\ obs.node.kind = "BinaryOperation"
    /\ LevelOf(obs.node) = 1
    /\ obs.node.right.kind = "BinaryOperation"
    /\ LevelOf(obs.node.right) = 2
    /\ obs.words = WordsOf(<<"a", "==", "b", "+", "a">>)

----------------------------------------------------------------------------
\* SpecCall: parse_bottom_expression applied to an identifier with a
\* parenthesised argument list, followed by any short run of tokens.

MaxTail == 4

CallHead == <<Word("Identifier", <<"f">>), Word("LParen", <<"(">>)>>

CallArguments ==
    { <<>>,
      <<Word("Number", <<"1">>)>>,
      <<Word("Identifier", <<"a">>), Word("Comma", <<",">>), Word("Number", <<"2">>)>> }

TailAlphabet ==
    { Word("Identifier", <<"g">>), Word("Number", <<"1">>), Word("LParen", <<"(">>),
      Word("RParen", <<")">>), Word("LBrace", <<"{">>), Word("RBrace", <<"}">>),
      Word("Semicolon", <<";">>), Word("Dot", <<".">>) }

Tails == UNION { [1..n -> TailAlphabet] : n \in 0..MaxTail }

InitCall ==
    /\ Unstarted
    /\ \E arguments \in CallArguments, tail \in Tails :
          obs = [kind |-> "call", arguments |-> arguments, tail |-> tail]

ParseBottomExpression ==
    /\ obs.kind = "call"
    /\ With(lay_out(CallHead \o obs.arguments \o <<Word("RParen", <<")">>)>> \o obs.tail,
                    0, <<>>), LAMBDA source :
         With(parse_bottom_expression(new_parser(source.tokens, source.source_len)),
              LAMBDA r :
           obs' = [kind |-> "bottom", arguments |-> obs.arguments, tail |-> obs.tail,
                   tokens |-> source.tokens, source_len |-> source.source_len,
                   some |-> r.some, node |-> r.node, errors |-> r.p.errors,
                   rest |-> r.p.tokens]))
    /\ steps' = steps + 1
    /\ UNCHANGED <<table, next_index, scope, phase, fail, final, issued>>

NextCall == ParseBottomExpression

SpecCall == InitCall /\ [][NextCall]_vars

\* the node under the field accesses that follow it
RECURSIVE AccessedValue(_)
AccessedValue(node) ==
    IF node.kind = "FieldAccess" THEN AccessedValue(node.value) ELSE node

\* the parser as it stands after the closing `)` of the argument list
AfterArguments ==
    new_parser(SubSeq(obs.tokens, Len(obs.tokens) - Len(obs.tail) + 1, Len(obs.tokens)),
               obs.source_len)

PositionalCount(arguments) == IF arguments = <<>> THEN 0 ELSE (Len(arguments) + 1) \div 2

\* C14: name(arguments) is a Call node, unless the `)` is followed by an
\* identifier, when it is an OperatorApplication whose one child is the
\* expression that starts there, or by `{`, when it is an
\* OperatorApplication whose children are the statements of the block.
C14_CallOrOperator ==
    obs.kind = "bottom" =>
        IF obs.tail # <<>> /\ obs.tail[1].kind = "Identifier"
        THEN With(parse_expression(AfterArguments), LAMBDA child :
               /\ obs.some = child.some
               /\ obs.some =>
                    /\ obs.node.kind = "OperatorApplication"
                    /\ obs.node.name = "f"
                    /\ Len(obs.node.arguments.positional) = PositionalCount(obs.arguments)
                    /\ obs.node.children = <<child.node>>
                    /\ obs.rest = child.p.tokens)
        ELSE IF obs.tail # <<>> /\ obs.tail[1].kind = "LBrace"
        THEN With(parse_braced_statement_list(AfterArguments), LAMBDA block :
               /\ obs.some
               /\ obs.node.kind = "OperatorApplication"
               /\ obs.node.name = "f"
               /\ Len(obs.node.arguments.positional) = PositionalCount(obs.arguments)
               /\ obs.node.children = block.nodes
               /\ obs.rest = block.p.tokens)
        ELSE /\ obs.some
             /\ AccessedValue(obs.node).kind = "Call"
             /\ AccessedValue(obs.node).name = "f"
             /\ Len(AccessedValue(obs.node).arguments.positional)
                    = PositionalCount(obs.arguments)

\* f(a, 2) g(); has parsed as an operator application of f to the call g()
C14_Witness ==
    /\ obs.kind = "bottom"
    /\ obs.some
    /\ Len(obs.arguments) = 3
    /\ Len(obs.tail) = 4
    /\ obs.tail[1].kind = "Identifier"
    /\ obs.node.kind = "OperatorApplication"
    /\ Len(obs.node.children) = 1
    /\ obs.node.children[1].kind = "Call"
    /\ obs.errors = <<>>

----------------------------------------------------------------------------
\* SpecParse: parse_statement and parse_statements applied to token streams
\* put together from a few phrases of the language.

MaxPhrases == 4

IdentifierWord(name) == Word("Identifier", <<name>>)
NumberWord(digit) == Word("Number", <<digit>>)
LParenWord == Word("LParen", <<"(">>)
RParenWord == Word("RParen", <<")">>)
LBraceWord == Word("LBrace", <<"{">>)
RBraceWord == Word("RBrace", <<"}">>)
SemicolonWord == Word("Semicolon", <<";">>)
EqualsWord == Word("Equals", <<"=">>)

CallPhrase == <<IdentifierWord("f"), LParenWord, RParenWord>>
OpenCallPhrase == <<IdentifierWord("f"), LParenWord>>
EmptyBlockPhrase == <<LBraceWord, RBraceWord>>
BlockPhrase == <<LBraceWord, IdentifierWord("a"), SemicolonWord, RBraceWord>>
SemicolonPhrase == <<SemicolonWord>>
ForPhrase ==
    <<Word("KwFor", <<"f", "o", "r">>), LParenWord, IdentifierWord("i"), EqualsWord,
      IdentifierWord("v"), RParenWord>>
IfPhrase == <<Word("KwIf", <<"i", "f">>), LParenWord, IdentifierWord("a"), RParenWord>>
ElsePhrase == <<Word("KwElse", <<"e", "l", "s", "e">>)>>
OperatorPhrase ==
    <<Word("KwOperator", <<"o", "p", "e", "r", "a", "t", "o", "r">>), IdentifierWord("o"),
      LParenWord, RParenWord>>
ModulePhrase ==
    <<Word("KwModule", <<"m", "o", "d", "u", "l", "e">>), IdentifierWord("m"), LParenWord,
      IdentifierWord("x"), RParenWord>>
BindPhrase == <<IdentifierWord("a"), EqualsWord>>
NumberPhrase == <<NumberWord("1")>>
IdentifierPhrase == <<IdentifierWord("a")>>
PlusPhrase == <<Word("Plus", <<"+">>)>>
FieldPhrase == <<Word("Dot", <<".">>), IdentifierWord("x")>>
VectorPhrase == <<Word("LBracket", <<"[">>), NumberWord("1"), Word("RBracket", <<"]">>)>>

Phrases ==
    { CallPhrase, OpenCallPhrase, EmptyBlockPhrase, BlockPhrase, SemicolonPhrase, ForPhrase,
      IfPhrase, ElsePhrase, OperatorPhrase, ModulePhrase, BindPhrase, NumberPhrase,
      IdentifierPhrase, PlusPhrase, FieldPhrase, VectorPhrase }

PhraseSeqs == UNION { [1..n -> Phrases] : n \in 1..MaxPhrases }

RECURSIVE Flatten(_)
Flatten(phrases) ==
    IF phrases = <<>> THEN <<>> ELSE Head(phrases) \o Flatten(Tail(phrases))

InitParse ==
    /\ Unstarted
    /\ \E phrases \in PhraseSeqs : obs = [kind |-> "phrases", phrases |-> phrases]

\* one call of parse_statement on a new parser
ParseStatement ==
    /\ obs.kind = "phrases"
    /\ With(lay_out(Flatten(obs.phrases), 0, <<>>), LAMBDA source :
         With(parse_statement(new_parser(source.tokens, source.source_len)), LAMBDA r :
           obs' = [kind |-> "statement", phrases |-> obs.phrases, some |-> r.some,
                   nodes |-> IF r.some THEN <<r.node>> ELSE <<>>, errors |-> r.p.errors]))
    /\ steps' = steps + 1
    /\ UNCHANGED <<table, next_index, scope, phase, fail, final, issued>>

\* Parser::new followed by parse_statements
ParseStatements ==
    /\ obs.kind = "phrases"
    /\ With(parse_words(Flatten(obs.phrases)), LAMBDA r :
         obs' = [kind |-> "parsed", phrases |-> obs.phrases, some |-> TRUE,
                 nodes |-> r.nodes, errors |-> r.p.errors])
    /\ steps' = steps + 1
    /\ UNCHANGED <<table, next_index, scope, phase, fail, final, issued>>

NextParse == ParseStatement \/ ParseStatements

SpecParse == InitParse /\ [][NextParse]_vars

Blocks == {EmptyBlockPhrase, BlockPhrase}

\* statements that end with a brace block
BracedStatements ==
    { <<head, block>> : head \in {CallPhrase, ForPhrase, IfPhrase, OperatorPhrase,
                                  ModulePhrase},
                        block \in Blocks }
        \cup { <<CallPhrase, CallPhrase, block>> : block \in Blocks }
        \cup { <<IfPhrase, block, ElsePhrase, EmptyBlockPhrase>> : block \in Blocks }

\* calls, bindings and plain expressions
PlainStatements ==
    { <<CallPhrase>>, <<BindPhrase, NumberPhrase>>, <<BindPhrase, CallPhrase>>,
      <<NumberPhrase>>, <<IdentifierPhrase>>, <<NumberPhrase, PlusPhrase, IdentifierPhrase>>,
      <<IdentifierPhrase, FieldPhrase>>, <<CallPhrase, IdentifierPhrase>> }

\* C16: a statement that ends with a brace block parses without error with
\* and without a `;` after it; a call, a binding or a plain expression
\* without its `;` is reported as a parse error.
C16_Terminators ==
    obs.kind = "parsed" =>
        /\ obs.phrases \in BracedStatements =>
              obs.errors = <<>> /\ Len(obs.nodes) = 1
        /\ (\E statement \in BracedStatements :
               obs.phrases = Append(statement, SemicolonPhrase)) =>
              obs.errors = <<>> /\ Len(obs.nodes) = 1
        /\ obs.phrases \in PlainStatements => obs.errors # <<>>

\* the sub-nodes of a node
SubNodes(node) ==
    CASE node.kind \in {"Call", "OperatorApplication"} ->
           node.arguments.positional
             \o [i \in DOMAIN node.arguments.named |-> node.arguments.named[i][2]]
             \o (IF node.kind = "OperatorApplication" THEN node.children ELSE <<>>)
      [] node.kind = "BinaryOperation" -> <<node.left, node.right>>
      [] node.kind \in {"UnaryNegate", "FieldAccess", "Binding"} -> <<node.value>>
      [] node.kind = "VectorLiteral" -> node.items
      [] node.kind = "VectorRangeLiteral" -> <<node.start, node.end>>
      [] node.kind = "ForLoop" -> <<node.loop_source>> \o node.body
      [] node.kind = "IfConditional" ->
           <<node.condition>> \o node.true_body \o node.false_body.nodes
      [] node.kind \in {"OperatorDefinition", "ModuleDefinition"} ->
           [i \in DOMAIN node.parameters.optional |-> node.parameters.optional[i][2]]
             \o node.body
      [] OTHER -> <<>>

\* the span outer covers every byte of the span inner
Contains(outer, inner) == outer.start <= inner.start /\ end(inner) <= end(outer)

RECURSIVE SpansNested(_)
SpansNested(node) ==
    \A i \in DOMAIN SubNodes(node) :
        Contains(node.span, SubNodes(node)[i].span) /\ SpansNested(SubNodes(node)[i])

\* C17: in every tree that parse_statements returns, here for the inputs it
\* parses without error, the span of a node contains the span of each node
\* under it.
C17_SpanContainment ==
    (obs.kind = "parsed" /\ obs.errors = <<>>) =>
        \A i \in DOMAIN obs.nodes : SpansNested(obs.nodes[i])

\* an input ends in the middle of a statement: after the `(` of an argument
\* list, after `=`, after a binary operator
EndsMidStatement(phrases) ==
    \/ phrases = <<OpenCallPhrase>>
    \/ phrases = <<BindPhrase>>
    \/ phrases = <<NumberPhrase, PlusPhrase>>
    \/ phrases = <<BindPhrase, OpenCallPhrase>>

\* C19: a parse_statement that returns no node has recorded a ParseError;
\* a parse_statements that records no error returns a statement for an input
\* that has tokens, and an input that ends in the middle of a statement is
\* reported with UnexpectedEnd.
C19_NoneHasError ==
    /\ (obs.kind = "statement" /\ ~obs.some) => obs.errors # <<>>
    /\ (obs.kind = "parsed" /\ obs.errors = <<>>) => obs.nodes # <<>>
    /\ (obs.kind = "parsed" /\ EndsMidStatement(obs.phrases)) =>
          \E i \in DOMAIN obs.errors : obs.errors[i].kind = "UnexpectedEnd"

----------------------------------------------------------------------------
\* SpecBuild: build_model on sources put together from a few pieces of text,
\* one step for each stage it runs.

MaxPieces == 3

CubePiece == <<"c", "u", "b", "e", "(", "[", "1", ",", "1", ",", "1", "]", ")", ";">>
SquarePiece == <<"s", "q", "u", "a", "r", "e", "(", "[", "1", ",", "1", "]", ")", ";">>
BindingPiece == <<"a", "=", "1", ";">>
ItPiece == <<"i", "t", ";">>
UndefinedPiece == <<"n", "o", "p", "e", ";">>
HashPiece == <<"#">>
RParenPiece == <<")">>
OpenBindingPiece == <<"a", "=">>
SpacePiece == <<" ">>
CommentPiece == <<"/", "/", "c", "\n">>
\* the source of test_basic_parse
ThreeNumbersPiece ==
    <<"c", "u", "b", "e", "(", "1", "0", ",", " ", "2", "0", ".", "5", ",", " ",
      "3", "0", ")", ";">>

SourcePieces ==
    { CubePiece, SquarePiece, BindingPiece, ItPiece, UndefinedPiece,
      HashPiece, RParenPiece, OpenBindingPiece, SpacePiece, CommentPiece,
      ThreeNumbersPiece }

BuildSources == { Flatten(pieces) : pieces \in UNION { [1..n -> SourcePieces] : n \in 0..MaxPieces } }

\* the statements as the interpreter reads them: positional arguments and
\* required parameters
RECURSIVE lower(_)
lower(node) ==
    CASE node.kind = "Call" ->
           Call(node.name, [i \in DOMAIN node.arguments.positional |->
                              lower(node.arguments.positional[i])])
      [] node.kind = "OperatorApplication" ->
           OperatorApplication(node.name,
               [i \in DOMAIN node.arguments.positional |->
                  lower(node.arguments.positional[i])],
               [i \in DOMAIN node.children |-> lower(node.children[i])])
      [] node.kind = "Binding" -> Binding(node.name, lower(node.value))
      [] node.kind = "FieldAccess" -> FieldAccess(lower(node.value), node.field)
      [] node.kind = "VectorLiteral" ->
           VectorLiteral([i \in DOMAIN node.items |-> lower(node.items[i])])
      [] node.kind = "BinaryOperation" ->
           BinaryOperation(lower(node.left), lower(node.right), node.op)
      [] node.kind = "UnaryNegate" -> UnaryNegate(lower(node.value))
      [] node.kind = "OperatorDefinition" ->
           OperatorDefinition(node.name, node.parameters.required,
                              [i \in DOMAIN node.body |-> lower(node.body[i])])
      [] OTHER -> node

\* a stage that reports nothing lets every source through
is_empty_always(errors) == TRUE

\* errors.is_empty()
is_empty(errors) == errors = <<>>

NoResult == [kind |-> "none"]
Err(stage, errors) == [kind |-> stage, errors |-> errors]
Ok(cells) == [kind |-> "Ok", cells |-> cells]

InitBuild ==
    /\ Unstarted
    /\ \E content \in BuildSources :
          obs = [kind |-> "build", stage |-> "source", content |-> content, ran |-> {},
                 tokens |-> <<>>, tokenize_errors |-> <<>>, stmts |-> <<>>,
                 parse_errors |-> <<>>, result |-> NoResult]

\* build_model, lines 20-23
BuildTokenize ==
    /\ obs.kind = "build" /\ obs.stage = "source"
    /\ With(tokenize(obs.content), LAMBDA r :
         obs' = [obs EXCEPT !.ran = @ \cup {"tokenize"},
                            !.tokens = r.tokens,
                            !.tokenize_errors = r.errors,
                            !.stage = IF is_empty(r.errors) THEN "tokens" ELSE "done",
                            !.result = IF is_empty(r.errors) THEN NoResult
                                       ELSE Err("Tokenize", r.errors)])
    /\ steps' = steps + 1
    /\ UNCHANGED <<table, next_index, scope, phase, fail, final, issued>>

\* build_model, lines 25-30
BuildParse ==
    /\ obs.kind = "build" /\ obs.stage = "tokens"
    /\ With(parse_statements(new_parser(obs.tokens, byte_len(obs.content))), LAMBDA r :
         obs' = [obs EXCEPT !.ran = @ \cup {"parse"},
                            !.stmts = r.nodes,
                            !.parse_errors = r.p.errors,
                            !.stage = IF is_empty(r.p.errors) THEN "parsed" ELSE "done",
                            !.result = IF is_empty(r.p.errors) THEN NoResult
                                       ELSE Err("Parser", r.p.errors)])
    /\ steps' = steps + 1
    /\ UNCHANGED <<table, next_index, scope, phase, fail, final, issued>>

\* build_model, lines 32-33 and 37-39: Interpreter::new, interpret_top_level
BuildInterpret ==
    /\ obs.kind = "build" /\ obs.stage = "parsed"
    /\ With(interpret_body([i \in DOMAIN obs.stmts |-> lower(obs.stmts[i])],
                           new_context, Current), LAMBDA r :
          /\ table' = r.st.table
          /\ next_index' = r.st.next_index
          /\ scope' = r.st.scopes[1]
          /\ fail' = r.st.fail
          /\ phase' = IF r.st.fail = NoFail THEN "running"
                      ELSE IF IsPanic(r.st.fail) THEN "panic" ELSE "error"
          /\ issued' = issued \cup SeqRange(r.st.added)
          /\ obs' = [obs EXCEPT !.ran = @ \cup {"interpret"},
                                !.stage = IF r.st.fail = NoFail THEN "interpreted" ELSE "done",
                                !.result = IF r.st.fail = NoFail \/ IsPanic(r.st.fail)
                                           THEN NoResult
                                           ELSE Err("Runtime", <<r.st.fail>>)])
    /\ steps' = steps + 1
    /\ final' = final

\* build_model, lines 34-36: build_top_level_manifold
BuildAssemble ==
    /\ obs.kind = "build" /\ obs.stage = "interpreted"
    /\ With(build_top_level_manifold(table), LAMBDA m :
          /\ phase' = IF m.panic = NoFail THEN "assembled" ELSE "panic"
          /\ fail' = m.panic
          /\ final' = m.cells
          /\ obs' = [obs EXCEPT !.ran = @ \cup {"assemble"},
                                !.stage = "done",
                                !.result = IF m.panic = NoFail THEN Ok(m.cells)
                                           ELSE NoResult])
    /\ steps' = steps + 1
    /\ UNCHANGED <<table, next_index, scope, issued>>

NextBuild == BuildTokenize \/ BuildParse \/ BuildInterpret \/ BuildAssemble

SpecBuild == InitBuild /\ [][NextBuild]_vars

\* no node has been evaluated and no geometry created
Untouched ==
    /\ DOMAIN table = {}
    /\ next_index = 1
    /\ scope = new_root
    /\ issued = {}
    /\ final = {}
    /\ fail = NoFail

\* C11: the interpreter runs only after a tokenization and a parse without
\* errors; when a stage reports an error nothing is evaluated, no geometry is
\* created and the result is the error value of that stage with its errors;
\* a runtime error is returned as an error value without final assembly.
C11_StagesGate ==
    obs.kind = "build" =>
        /\ obs.tokenize_errors # <<>> =>
              /\ obs.ran = {"tokenize"}
              /\ obs.result = Err("Tokenize", obs.tokenize_errors)
              /\ Untouched
        /\ obs.parse_errors # <<>> =>
              /\ obs.ran = {"tokenize", "parse"}
              /\ obs.result = Err("Parser", obs.parse_errors)
              /\ Untouched
        /\ "interpret" \in obs.ran =>
              obs.tokenize_errors = <<>> /\ obs.parse_errors = <<>>
        /\ "interpret" \notin obs.ran => Untouched
        /\ (fail # NoFail /\ ~IsPanic(fail)) =>
              /\ obs.result = Err("Runtime", <<fail>>)
              /\ "assemble" \notin obs.ran
              /\ final = {}
        /\ obs.result.kind = "Ok" =>
              obs.ran = {"tokenize", "parse", "interpret", "assemble"} /\ fail = NoFail

\* a source with a cube and then a parse error has come back as a Parser
\* error with the table still empty
C11_Witness ==
    /\ obs.kind = "build"
    /\ obs.stage = "done"
    /\ obs.result.kind = "Parser"
    /\ \E i \in DOMAIN obs.stmts : obs.stmts[i].kind = "Call" /\ obs.stmts[i].name = "cube"
    /\ DOMAIN table = {}

(***************************************************************************)
(* C21: `cube(10, 20.5, 30);`, from the source text to the geometry table. *)
(***************************************************************************)
\* the statement is a single Call of `cube` with three positional numbers
IsCubeOfThreeNumbers(stmts) ==
    /\ Len(stmts) = 1
    /\ stmts[1].kind = "Call"
    /\ stmts[1].name = "cube"
    /\ Len(stmts[1].arguments.positional) = 3
    /\ \A i \in 1..3 : stmts[1].arguments.positional[i].kind = "NumberLiteral"
    /\ stmts[1].arguments.named = <<>>

\* C21: `cube(10, 20.5, 30);` tokenizes without error, parses without error to
\* a single Call with three positional arguments, and is interpreted without
\* error, after which the geometry table holds exactly one entry, Physical
\* and 3D.
C21_CubeOfThreeNumbers ==
    (obs.kind = "build" /\ obs.content = ThreeNumbersPiece) =>
        /\ "tokenize" \in obs.ran => obs.tokenize_errors = <<>>
        /\ "parse" \in obs.ran =>
              obs.parse_errors = <<>> /\ IsCubeOfThreeNumbers(obs.stmts)
        /\ "interpret" \in obs.ran =>
              /\ fail = NoFail
              /\ Cardinality(DOMAIN table) = 1
              /\ \A h \in DOMAIN table :
                    table[h].disposition = Physical /\ table[h].entry.dim = 3

(***************************************************************************)
(* C22: the frame of a built-in operator application.                      *)
(***************************************************************************)
\* the handles of the given rows
HandlesOf(rows) == { rows[i].handle : i \in DOMAIN rows }

\* the children given are gone from `after`, exactly one handle that was not
\* in `before` holds the result, and every other entry is as it was
ConsumesChildren(before, after, kids, handle) ==
    /\ HandlesOf(kids) \cap DOMAIN after = {}
    /\ DOMAIN after \ DOMAIN before = {handle}
    /\ DOMAIN after = (DOMAIN before \ HandlesOf(kids)) \cup {handle}
    /\ Cardinality(DOMAIN after) = Cardinality(DOMAIN before) + 1 - Len(kids)
    /\ \A h \in DOMAIN before \ HandlesOf(kids) : after[h] = before[h]

\* C22: after a built-in operator has been applied successfully to n >= 1
\* child handles, none of the children is in the geometry table, exactly one
\* new entry (the result) has been added, the number of live entries has
\* changed by 1 - n, and no other entry has been touched.
C22_OperatorFrame ==
    obs.kind = "statement" =>
        \A e \in obs.app_log :
            (e.outcome = NoFail /\ Len(e.kids) >= 1) =>
                ConsumesChildren(e.before, e.after, e.kids, e.handle)

\* the same frame for the operators of the catalogue, applied to live handles
CatalogOperatorConsumesChildren ==
    (obs.kind = "operator" /\ obs.outcome = NoFail /\ Len(obs.given) >= 1) =>
        \E h \in DOMAIN table : ConsumesChildren(obs.before, table, obs.given, h)

----------------------------------------------------------------------------
\* SpecProgress: parse_statements run one iteration of its `while` loop at a
\* time, on token streams put together from phrases and single tokens.

MaxProgressPhrases == 3

ArgumentsCallPhrase ==
    <<IdentifierWord("f"), LParenWord, IdentifierWord("a"), Word("Comma", <<",">>),
      IdentifierWord("a"), RParenWord>>

ProgressPhrases ==
    { ArgumentsCallPhrase, CallPhrase, OpenCallPhrase, BlockPhrase, ForPhrase, IfPhrase,
      ElsePhrase, OperatorPhrase, BindPhrase, IdentifierPhrase, VectorPhrase,
      SemicolonPhrase, <<LBraceWord>>, <<RBraceWord>>, <<RParenWord>>,
      <<Word("Comma", <<",">>)>>, <<Word("LBracket", <<"[">>)>> }

ProgressSeqs == UNION { [1..n -> ProgressPhrases] : n \in 0..MaxProgressPhrases }

NoCall == [before |-> 1, after |-> 0, some |-> TRUE]

InitProgress == Unstarted /\ obs = NoObs

\* Parser::new on the tokens of a source
NewParser ==
    /\ obs = NoObs
    /\ \E phrases \in ProgressSeqs :
          With(lay_out(Flatten(phrases), 0, <<>>), LAMBDA source :
            obs' = [kind |-> "progress", phrases |-> phrases,
                    p |-> new_parser(source.tokens, source.source_len),
                    last |-> NoCall, succeeded |-> 0, failed |-> 0, returned |-> FALSE])
    /\ UNCHANGED <<table, next_index, scope, phase, fail, final, steps, issued>>

\* parse_statements, lines 206-210: one iteration of the `while` loop
StatementsIteration ==
    /\ obs.kind = "progress" /\ ~obs.returned
    /\ obs.p.tokens # <<>>
    /\ With(parse_statement(obs.p), LAMBDA stmt :
         obs' = [obs EXCEPT !.p = stmt.p,
                            !.last = [before |-> Len(obs.p.tokens),
                                      after |-> Len(stmt.p.tokens), some |-> stmt.some],
                            !.succeeded = IF stmt.some THEN @ + 1 ELSE @,
                            !.failed = IF stmt.some THEN @ ELSE @ + 1])
    /\ steps' = steps + 1
    /\ UNCHANGED <<table, next_index, scope, phase, fail, final, issued>>

\* parse_statements, lines 206 and 212: the loop ends and stmts is returned
StatementsReturn ==
    /\ obs.kind = "progress" /\ ~obs.returned
    /\ obs.p.tokens = <<>>
    /\ obs' = [obs EXCEPT !.returned = TRUE]
    /\ UNCHANGED <<table, next_index, scope, phase, fail, final, steps, issued>>

NextProgress == NewParser \/ StatementsIteration \/ StatementsReturn

SpecProgress == InitProgress /\ [][NextProgress]_vars

\* every call of parse_statement made with a token left has consumed at least
\* one token, and so has every iteration of the two list loops that went
\* round again
EveryIterationConsumes ==
    obs.kind = "progress" =>
        /\ obs.last.after < obs.last.before
        /\ \A e \in obs.p.iterations : e.after < e.before

\* C23: parse_statements terminates on every finite token sequence: each call
\* of parse_statement made while a token remains consumes at least one token
\* whether it succeeds or fails, each iteration of the loops of
\* parse_braced_statement_list and parse_bracketed_comma_separated_list
\* consumes at least one token or leaves the loop, and parse_statements
\* returns with no token left.  The calls made so far and the tokens left
\* never add up to more than the tokens of the source, which bounds the
\* number of iterations of the `while` loop.
C23_Terminates ==
    obs.kind = "progress" =>
        /\ EveryIterationConsumes
        /\ obs.succeeded + obs.failed + Len(obs.p.tokens) <= Len(Flatten(obs.phrases))
        /\ obs.returned => obs.p.tokens = <<>>

\* `f(a, a) { a; } )` has been parsed to the end: the argument list and the
\* block have each gone round their loop, one statement succeeded and one
\* call of parse_statement failed on the `)`
C23_Witness ==
    /\ obs.kind = "progress"
    /\ obs.phrases = <<ArgumentsCallPhrase, BlockPhrase, <<RParenWord>>>>
    /\ obs.returned
    /\ obs.succeeded = 1 /\ obs.failed = 1
    /\ \E e \in obs.p.iterations : e.loop = "list"
    /\ \E e \in obs.p.iterations : e.loop = "braced"

(***************************************************************************)
(* C24: the single-element vector literal.                                 *)
(***************************************************************************)
IsSingleElementVector(node) ==
    node.kind = "VectorLiteral" /\ Len(node.items) = 1 /\ node.items[1].kind = "NumberLiteral"

\* C24: `[e]` parses with no parse error as a VectorLiteral with the one
\* element e, its `]` is consumed and parsing continues after it: `a = [1];`
\* is one binding statement and `[1];` is one expression statement.
C24_SingleElementVector ==
    obs.kind = "parsed" =>
        /\ obs.phrases = <<BindPhrase, VectorPhrase, SemicolonPhrase>> =>
              /\ obs.errors = <<>>
              /\ Len(obs.nodes) = 1
              /\ obs.nodes[1].kind = "Binding"
              /\ IsSingleElementVector(obs.nodes[1].value)
        /\ obs.phrases = <<VectorPhrase, SemicolonPhrase>> =>
              /\ obs.errors = <<>>
              /\ Len(obs.nodes) = 1
              /\ IsSingleElementVector(obs.nodes[1])

(***************************************************************************)
(* C25: the frame of `children()` in the body of a user-defined operator.  *)
(***************************************************************************)
\* the union of the geometry of the given rows
CellsOf(rows) == UNION { rows[i].entry.cells : i \in DOMAIN rows }

\* the rows are live Virtual entries
AllVirtual(rows) == \A i \in DOMAIN rows : rows[i].present /\ rows[i].disposition = Virtual

EventsOf(trace, owner) ==
    [i \in 1..Len(SelectSeq(trace, LAMBDA e : e.owner = owner)) |->
        <<SelectSeq(trace, LAMBDA e : e.owner = owner)[i].role,
          SelectSeq(trace, LAMBDA e : e.owner = owner)[i].index>>]

\* the order the specification gives: the children in source order, the
\* `it` state, the arguments in source order, the resolution of the name
EvaluationOrder(apply) ==
    <<<<"apply", 0>>>> \o [i \in 1..apply.children |-> <<"child", i>>] \o <<<<"it", 0>>>>
        \o [i \in 1..apply.arguments |-> <<"argument", i>>] \o <<<<"resolve", 0>>>>

IsPrefix(s, t) == Len(s) <= Len(t) /\ s = SubSeq(t, 1, Len(s))

AllOfDimension(rows, dim) ==
    /\ \A i \in DOMAIN rows : rows[i].present /\ rows[i].entry.dim = dim
    /\ flatten([i \in DOMAIN rows |-> rows[i].disposition]) \in {Physical, Virtual}

\* C27: `linear_extrude` applied to children whose union is 3D fails with the
\* runtime error Requires2DGeometry and does not panic; applied to 2D
\* children it yields exactly one 3D entry whose disposition is the
\* disposition of the children's union.
C27_LinearExtrude ==
    obs.kind = "statement" =>
        \A e \in obs.app_log :
            (e.name = "linear_extrude" /\ e.kids # <<>>) =>
                /\ AllOfDimension(e.kids, 3) => e.outcome = "Requires2DGeometry"
                /\ (AllOfDimension(e.kids, 2) /\ e.outcome = NoFail) =>
                      /\ e.result.present
                      /\ e.result.entry.dim = 3
                      /\ e.result.disposition =
                            flatten([i \in DOMAIN e.kids |-> e.kids[i].disposition])
                      /\ DOMAIN e.after \ DOMAIN e.before = {e.handle}

\* the catalogue's linear_extrude on live handles
CatalogLinearExtrudeKeepsContract ==
    (obs.kind = "operator" /\ obs.name = "linear_extrude" /\ obs.given # <<>>) =>
        /\ AllOfDimension(obs.given, 3) => obs.outcome = "Requires2DGeometry"
        /\ (AllOfDimension(obs.given, 2) /\ obs.outcome = NoFail) =>
              /\ obs.entry.dim = 3
              /\ obs.disposition = flatten([i \in DOMAIN obs.given |-> obs.given[i].disposition])

(***************************************************************************)
(* C28: the frames of the iterations of a `for` loop.                      *)
(***************************************************************************)
\* the names a `for` loop binds: its variable and what its body binds or defines
BoundNames(node) ==
    {node.loop_variable} \cup
    { node.body[i].name : i \in { j \in DOMAIN node.body :
                                    node.body[j].kind \in {"Binding", "OperatorDefinition"} } }

NamesOf(frame) == DOMAIN frame.bindings \cup DOMAIN frame.operators

\* C28: each iteration of a `for` loop runs in a child frame of its own: the
\* frame it enters holds the loop variable and nothing else, whatever the
\* iterations before it bound; the bindings and operators made in the body go
\* to that frame and leave the enclosing frames as they were; the same names
\* are bound again in the next iteration without a duplicate-name error (a
\* loop that applies no user-defined operator fails with a duplicate only on
\* a name that the enclosing frame held before the loop); and after the loop
\* the enclosing frame holds what it held before.
C28_LoopFrames ==
    obs.kind = "statement" =>
        /\ \A n \in DOMAIN obs.loop_log :
              With(obs.loop_log[n], LAMBDA e :
                /\ Len(e.entered) = Len(e.enclosing) + 1
                /\ SubSeq(e.entered, 1, Len(e.enclosing)) = e.enclosing
                /\ DOMAIN e.entered[Len(e.entered)].bindings = {e.variable}
                /\ DOMAIN e.entered[Len(e.entered)].operators = {}
                /\ e.outcome = NoFail =>
                      /\ Len(e.left) = Len(e.entered)
                      /\ SubSeq(e.left, 1, Len(e.enclosing)) = e.enclosing
                      /\ e.variable \in DOMAIN e.left[Len(e.left)].bindings)
        /\ obs.node.kind = "ForLoop" =>
              /\ scope = obs.scope_before
              /\ \A n \in DOMAIN obs.loop_log : obs.loop_log[n].enclosing = <<obs.scope_before>>
              /\ (fail = "DuplicateBinding" /\ obs.scope_log = {}) =>
                    BoundNames(obs.node) \cap NamesOf(obs.scope_before) # {}

\* a loop whose body binds `c` and defines `bar` has run two iterations after
\* a statement that bound `a`: both iterations bound the names, and the root
\* frame holds `a` alone
C28_Witness ==
    /\ obs.kind = "statement"
    /\ obs.node.kind = "ForLoop"
    /\ fail = NoFail
    /\ Len(obs.loop_log) = 2
    /\ \A n \in DOMAIN obs.loop_log :
          NamesOf(obs.loop_log[n].left[2]) = {"i", "c", "bar"}
    /\ NamesOf(scope) = {"a"}

(***************************************************************************)
(* C29: the scope in which the body of a user-defined operator runs.       *)
(***************************************************************************)
\* the frame of `scopes` in which the operator `name` is defined
DefinedAt(scopes, name) == SetMax({ k \in DOMAIN scopes : name \in DOMAIN scopes[k].operators })

\* the frame chain of the place where the operator of e was defined
DefinitionScopes(e) == SubSeq(e.scopes, 1, DefinedAt(e.scopes, e.definition.name))

\* the first statement of the body, when it has the given kind
FirstOfBody(e, kind) == e.definition.body # <<>> /\ e.definition.body[1].kind = kind

\* C29: the free names of the body of a user-defined operator are resolved
\* in the frame chain of the place where the operator was defined: a name
\* that is bound only in the applying scope is undefined in the body, and a
\* binding made in the body is not a duplicate because of a name bound only
\* at the call site.
C29_LexicalScope ==
    obs.kind = "statement" =>
        \A e \in obs.scope_log :
            /\ (/\ FirstOfBody(e, "Identifier")
                /\ e.definition.body[1].id \notin SeqRange(e.definition.parameters)
                /\ ~get_binding(DefinitionScopes(e), e.definition.body[1].id).found)
                  => e.outcome = "UndefinedIdentifier"
            /\ (/\ FirstOfBody(e, "Binding")
                /\ e.definition.body[1].name \notin SeqRange(e.definition.parameters)
                /\ ~get_binding(DefinitionScopes(e), e.definition.body[1].name).found)
                  => e.outcome # "DuplicateBinding"

(***************************************************************************)
(* C30: the union of an empty list of handles.                             *)
(***************************************************************************)
\* C30: unioning an empty list of handles never panics: a `for` loop whose
\* source is empty or whose body emits no Physical geometry, a user-operator
\* body that emits no Physical geometry, `children()` in an operator applied
\* to no geometry child and `union() {}` each end with a value or with a
\* RuntimeError, never with the panic of `split_first().unwrap()`.
C30_EmptyUnionNeverPanics ==
    obs.kind = "statement" => fail # PanicUnwrapNone

\* GeometryTable::remove_many_into_union on no handles
TableEmptyUnionNeverPanics ==
    (obs.kind = "union_many" /\ obs.given = <<>>) => obs.outcome # PanicUnwrapNone

====
